---- MODULE Spec2Model ----
(***************************************************************************)
(* Translation-key synchronisation engine of okanay/tanstack-i18n:         *)
(* the merge engine (i18n/utils.ts), extraction (i18n/extract.ts) and the  *)
(* batch translator (i18n/translate.ts).                                   *)
(*                                                                         *)
(* A TranslationValue is a record [kind, text, items]:                     *)
(*   kind "str"  : text is the string as a sequence of tokens (words,      *)
(*                 {{placeholders}}, <tags>, " ")                          *)
(*   kind "num"  : text is <<digits>>;  kind "bool": text is <<"true">>    *)
(*   kind "list" : items is the sequence of the elements                   *)
(*   kind "map"  : items is the sequence of the entries [k, v] in the      *)
(*                 object's property order (JSON.stringify reads that      *)
(*                 order, so two maps are "byte-for-byte" equal exactly    *)
(*                 when their entry sequences are equal)                   *)
(*   kind "undef": JavaScript's undefined                                  *)
(***************************************************************************)
EXTENDS Integers, Sequences, FiniteSets, TLC

VARIABLES
    syncTranslationsStrictly,   \* CONFIG.behavior.syncTranslationsStrictly
    fillEmptyWithSource,        \* CONFIG.behavior.fillEmptyWithSource
    cleanUnusedKeys,            \* CONFIG.behavior.cleanUnusedKeys
    removeEmptyFiles,           \* CONFIG.behavior.removeEmptyFiles
    codeKeys,                   \* the key map scanAllFiles() returns now, in insertion order
    hashes,                     \* the snapshot file: full key -> [hash, defaultValue]
    docs,                       \* docs[lang][ns]: the document on disk, or NoFile
    index,                      \* index[lang]: the namespaces the index module lists
    cmd,                        \* the last thing that happened: "edit", "manual", "extract",
                                \* or "extract2" for an extract that follows an extract
    added,                      \* extract: keys classified added by the last run
    changed,                    \* extract: keys classified changed by the last run
    written,                    \* documents <<lang, ns>> saved by the last command
    pTarget,                    \* mergeDeep call: argument target (existing)
    pSource,                    \* mergeDeep call: argument source (incoming)
    pResult,                    \* mergeDeep call: the returned value
    pPhase,                     \* "ready" before the call, "returned" after
    apiKeySet,                  \* whether process.env.ANTHROPIC_API_KEY is set
    targetLangArg,              \* translate: the language argument of the last run, "" if none
    tPhase,                     \* translate: "idle", "pending" (awaiting the calls), "returned"
                                \* or "failed" (the command threw)
    payloads,                   \* translate: the batch requests of the run, in dispatch order
    results,                    \* translate: the promise of each request
    fetched,                    \* translate: requests sent to the service by the run
    applied,                    \* translate: items <<lang, fullKey>> the last run applied
    skipped,                    \* translate: items the last run collected and did not apply
    failedCount,                \* translate: the failure count of the last run
    runs,                       \* translate: runs started so far
    translatedCount,            \* status: translatedCount[lang] of the last run
    missingKeys,                \* status: missingKeys[lang] of the last run, in push order
    percentage,                 \* status: the percentage printed for each language
    totalKeys,                  \* tally: the number of keys of a snapshot
    doneKeys,                   \* tally: how many of them are translated in a language
    shown,                      \* tally: the percentage status prints for these counts, -1 before
    shownBefore,                \* tally: the percentage printed before the last translation, -1 if none
    sourceTree,                 \* scanner: the source files, in the order of the glob
    scanKeys,                   \* scanner: the key map scanAllFiles returned for it, in insertion order
    mValue,                     \* applyStrings call: argument value
    mStrings,                   \* applyStrings call: argument strings
    mResult,                    \* applyStrings call: the returned value, Undef before
    mCursor                     \* applyStrings call: cursor.i after the call, -1 before

config == <<syncTranslationsStrictly, fillEmptyWithSource, cleanUnusedKeys, removeEmptyFiles>>

disk == <<hashes, docs, index>>

extractReport == <<added, changed>>

mergeCall == <<pTarget, pSource, pResult, pPhase>>

translateRun == <<apiKeySet, targetLangArg, tPhase, payloads, results, fetched, applied, skipped, failedCount, runs>>

statusReport == <<translatedCount, missingKeys, percentage>>

tally == <<totalKeys, doneKeys, shown, shownBefore>>

scanner == <<sourceTree, scanKeys>>

mirror == <<mValue, mStrings, mResult, mCursor>>

vars == <<config, codeKeys, disk, cmd, extractReport, written, mergeCall, translateRun, statusReport,
          tally, scanner, mirror>>

\* ------------------------------------------------------------------------
\* TranslationValue
\* ------------------------------------------------------------------------

Str(tokens) == [kind |-> "str", text |-> tokens, items |-> <<>>]

Num(digits) == [kind |-> "num", text |-> <<digits>>, items |-> <<>>]

Bool(word) == [kind |-> "bool", text |-> <<word>>, items |-> <<>>]

List(elements) == [kind |-> "list", text |-> <<>>, items |-> elements]

Map(entries) == [kind |-> "map", text |-> <<>>, items |-> entries]

Undef == [kind |-> "undef", text |-> <<>>, items |-> <<>>]

Entry(key, value) == [k |-> key, v |-> value]

\* JavaScript's typeof: arrays and plain objects are both "object".
TypeOf(v) ==
    CASE v.kind = "str" -> "string"
      [] v.kind = "num" -> "number"
      [] v.kind = "bool" -> "boolean"
      [] v.kind \in {"list", "map"} -> "object"
      [] OTHER -> "undefined"

\* The property names of array elements, "0", "1", ...
IdxStr == <<"0", "1", "2", "3", "4", "5">>

IsIdx(key) == \E i \in 1..Len(IdxStr) : IdxStr[i] = key

HasKey(entries, key) == \E i \in 1..Len(entries) : entries[i].k = key

EGet(entries, key) ==
    IF HasKey(entries, key)
    THEN entries[CHOOSE i \in 1..Len(entries) : entries[i].k = key].v
    ELSE Undef

\* Property order of a JavaScript object: integer-like names first, in
\* ascending order, then the other names in insertion order.
JSOrder(entries) ==
    LET intKeys == SelectSeq(IdxStr, LAMBDA key : HasKey(entries, key))
        ints == [i \in 1..Len(intKeys) |-> Entry(intKeys[i], EGet(entries, intKeys[i]))]
        others == SelectSeq(entries, LAMBDA e : ~IsIdx(e.k))
    IN ints \o others

\* obj[key] = value
ESet(entries, key, value) ==
    IF HasKey(entries, key)
    THEN [i \in 1..Len(entries) |->
            IF entries[i].k = key THEN Entry(key, value) ELSE entries[i]]
    ELSE JSOrder(Append(entries, Entry(key, value)))

\* Object.entries(v) / {...v} of an array or a plain object
ObjEntries(v) ==
    IF v.kind = "list"
    THEN [i \in 1..Len(v.items) |-> Entry(IdxStr[i], v.items[i])]
    ELSE IF v.kind = "map" THEN v.items ELSE <<>>

\* Object.keys(v)
ObjKeys(v) == [i \in 1..Len(ObjEntries(v)) |-> ObjEntries(v)[i].k]

\* v[key]
ObjGet(v, key) == EGet(ObjEntries(v), key)

\* ------------------------------------------------------------------------
\* Merge engine (i18n/utils.ts)
\* ------------------------------------------------------------------------

RECURSIVE mergeDeep(_, _)
RECURSIVE mergeObjectKeys(_, _, _, _)

\* mergeDeep that lets the incoming primitive replace the existing one.
mergeDeepSourceWins(target, source) ==
    IF target = Undef THEN source
    ELSE IF TypeOf(target) # TypeOf(source) THEN source
    ELSE IF source.kind = "list" /\ target.kind = "list"
    THEN List([i \in 1..Len(source.items) |->
                 mergeDeep(IF i <= Len(target.items) THEN target.items[i] ELSE Undef,
                           source.items[i])])
    ELSE IF TypeOf(source) = "object" /\ TypeOf(target) = "object"
    THEN Map(mergeObjectKeys(IF syncTranslationsStrictly THEN <<>> ELSE ObjEntries(target),
                             ObjKeys(source), target, source))
    ELSE source

\* mergeDeep without the strict branch: the result always starts as a copy of target.
mergeDeepSoftOnly(target, source) ==
    IF target = Undef THEN source
    ELSE IF TypeOf(target) # TypeOf(source) THEN source
    ELSE IF source.kind = "list" /\ target.kind = "list"
    THEN List([i \in 1..Len(source.items) |->
                 mergeDeep(IF i <= Len(target.items) THEN target.items[i] ELSE Undef,
                           source.items[i])])
    ELSE IF TypeOf(source) = "object" /\ TypeOf(target) = "object"
    THEN Map(mergeObjectKeys(ObjEntries(target), ObjKeys(source), target, source))
    ELSE target

\* mergeDeep whose array branch maps over target instead of source.
mergeDeepTargetLen(target, source) ==
    IF target = Undef THEN source
    ELSE IF TypeOf(target) # TypeOf(source) THEN source
    ELSE IF source.kind = "list" /\ target.kind = "list"
    THEN List([i \in 1..Len(target.items) |->
                 IF i <= Len(source.items) THEN mergeDeep(target.items[i], source.items[i])
                 ELSE target.items[i]])
    ELSE IF TypeOf(source) = "object" /\ TypeOf(target) = "object"
    THEN Map(mergeObjectKeys(IF syncTranslationsStrictly THEN <<>> ELSE ObjEntries(target),
                             ObjKeys(source), target, source))
    ELSE target

\* for (const key of Object.keys(source)) result[key] = mergeDeep(target[key], source[key])
mergeObjectKeys(result, keys, target, source) ==
    IF keys = <<>> THEN result
    ELSE LET key == Head(keys)
             sourceValue == ObjGet(source, key)
             targetValue == ObjGet(target, key)
         IN mergeObjectKeys(ESet(result, key, mergeDeep(targetValue, sourceValue)),
                            Tail(keys), target, source)

mergeDeep(target, source) ==
    IF target = Undef THEN source
    ELSE IF TypeOf(target) # TypeOf(source) THEN source
    ELSE IF source.kind = "list" /\ target.kind = "list"
    THEN List([i \in 1..Len(source.items) |->
                 mergeDeep(IF i <= Len(target.items) THEN target.items[i] ELSE Undef,
                           source.items[i])])
    ELSE IF TypeOf(source) = "object" /\ TypeOf(target) = "object"
    THEN Map(mergeObjectKeys(IF syncTranslationsStrictly THEN <<>> ELSE ObjEntries(target),
                             ObjKeys(source), target, source))
    ELSE target

\* ------------------------------------------------------------------------
\* Skeleton, hash and document store (i18n/utils.ts)
\* ------------------------------------------------------------------------

\* Tokens the interpolation regex /\{\{[^}]+\}\}/g matches.
Placeholders == {"{{n}}"}

\* Tokens the tag regex /<\/?[^>]+(>|$)/g matches.
Tags == {"<b>", "</b>"}

RECURSIVE JoinSpace(_)
\* parts.join(' ')
JoinSpace(parts) ==
    IF Len(parts) <= 1 THEN parts
    ELSE <<Head(parts), " ">> \o JoinSpace(Tail(parts))

RECURSIVE generateSkeleton(_)
generateSkeleton(value) ==
    IF value.kind = "list"
    THEN List([i \in 1..Len(value.items) |-> generateSkeleton(value.items[i])])
    ELSE IF value.kind = "map"
    THEN Map([i \in 1..Len(value.items) |->
                Entry(value.items[i].k, generateSkeleton(value.items[i].v))])
    ELSE IF value.kind = "str"
    THEN Str(JoinSpace(SelectSeq(value.text, LAMBDA t : t \in Placeholders)
                       \o SelectSeq(value.text, LAMBDA t : t \in Tags)))
    ELSE Str(<<>>)

\* The text Bun.hash is applied to: a string is hashed directly, every other
\* value through JSON.stringify, so the number 5 and the string "5" serialise
\* alike.  The 8-digit hash is modelled as the text itself (no collisions
\* between different texts).
quickHash(val) ==
    IF val.kind \in {"str", "num", "bool"}
    THEN [text |-> val.text, json |-> Undef]
    ELSE [text |-> <<>>, json |-> val]

\* Every property name of the model, in the order of Array.prototype.sort().
SortedKeys == <<"0", "1", "2", "3", "4", "5", "a", "b", "n", "t", "t:x">>

RECURSIVE sortDeep(_)
sortDeep(value) ==
    IF value.kind = "list"
    THEN List([i \in 1..Len(value.items) |-> sortDeep(value.items[i])])
    ELSE IF value.kind = "map"
    THEN LET ks == SelectSeq(SortedKeys, LAMBDA key : HasKey(value.items, key))
         IN Map([i \in 1..Len(ks) |-> Entry(ks[i], sortDeep(EGet(value.items, ks[i])))])
    ELSE value

\* A (language, namespace) pair without a file on disk.
NoFile == [kind |-> "nofile", text |-> <<>>, items |-> <<>>]

\* A file on disk whose text is not JSON.
Corrupt == [kind |-> "corrupt", text |-> <<>>, items |-> <<>>]

\* A loader without the try/catch around file.json(): what it hands on for
\* a file that is not JSON is not a mapping.
loadJsonFileUnguarded(file) == IF file = NoFile THEN Map(<<>>) ELSE file

\* The parsed content of a document file; {} when the file is missing or when
\* file.json() throws.
loadJsonFile(file) == IF file \in {NoFile, Corrupt} THEN Map(<<>>) ELSE file

\* The file after ensureNamespaceFile: '{}' is written when there is none.
ensureNamespaceFile(file) == IF file = NoFile THEN Map(<<>>) ELSE file

\* The content saveJsonFile leaves on disk.
saveJsonFile(data) == sortDeep(data)

\* ------------------------------------------------------------------------
\* Configuration (i18n/config.ts)
\* ------------------------------------------------------------------------

languages == <<"en", "tr", "fr">>

defaultLanguage == "en"

LangSet == {languages[i] : i \in 1..Len(languages)}

TargetLangs == LangSet \ {defaultLanguage}

\* ------------------------------------------------------------------------
\* Keys.  A full key "namespace:key.path" is an atom of the model; the table
\* gives what split(':') and split('.') make of it: keyPath is everything
\* after the first ':' and second is split(':')[1], both split at '.'.
\* FullKeys lists the keys in localeCompare order, NsSorted the namespaces in
\* sort() order.
\* ------------------------------------------------------------------------

FullKeys == <<"app:a", "app:a.b", "app:n", "home:t", "home:t:x">>

KeyTable ==
    [fullKey \in {"app:a", "app:a.b", "app:n", "home:t", "home:t:x"} |->
        CASE fullKey = "app:a" ->
                [namespace |-> "app", keyPath |-> <<"a">>, second |-> <<"a">>]
          [] fullKey = "app:a.b" ->
                [namespace |-> "app", keyPath |-> <<"a", "b">>, second |-> <<"a", "b">>]
          [] fullKey = "app:n" ->
                [namespace |-> "app", keyPath |-> <<"n">>, second |-> <<"n">>]
          [] fullKey = "home:t" ->
                [namespace |-> "home", keyPath |-> <<"t">>, second |-> <<"t">>]
          [] fullKey = "home:t:x" ->
                [namespace |-> "home", keyPath |-> <<"t:x">>, second |-> <<"t">>]]

NsSorted == <<"app", "home">>

AllNamespaces == {NsSorted[i] : i \in 1..Len(NsSorted)}

NsOf(fullKey) == KeyTable[fullKey].namespace

PathOf(fullKey) == KeyTable[fullKey].keyPath

\* fullKey.split(':')[1], split at '.'
SecondOf(fullKey) == KeyTable[fullKey].second

\* ------------------------------------------------------------------------
\* Extraction (i18n/extract.ts)
\* ------------------------------------------------------------------------

RECURSIVE getNestedValue(_, _)
getNestedValue(obj, keyPath) ==
    IF keyPath = <<>> THEN obj
    ELSE IF TypeOf(obj) = "object" /\ HasKey(ObjEntries(obj), Head(keyPath))
    THEN getNestedValue(ObjGet(obj, Head(keyPath)), Tail(keyPath))
    ELSE Undef

RECURSIVE setNestedValue(_, _, _)
\* obj is a mapping.  A non-object on the way is replaced by {}.
\* An array on the way is an object too: the named property is set on the
\* array, where JSON.stringify does not see it (key paths of the model have
\* no numeric segment).
setNestedValue(obj, keyPath, value) ==
    IF obj.kind = "list" THEN obj
    ELSE IF Len(keyPath) = 1 THEN Map(ESet(obj.items, Head(keyPath), value))
    ELSE LET key == Head(keyPath)
             child == ObjGet(obj, key)
             current == IF TypeOf(child) = "object" THEN child ELSE Map(<<>>)
         IN Map(ESet(obj.items, key, setNestedValue(current, Tail(keyPath), value)))

\* Keys of the scan absent from the previous snapshot.
addedKeys(keys, oldHashes) ==
    {keys[i].fullKey : i \in {j \in 1..Len(keys) : keys[j].fullKey \notin DOMAIN oldHashes}}

\* Keys of the scan whose hash differs from the previous snapshot's.
changedKeys(keys, oldHashes) ==
    {keys[i].fullKey : i \in {j \in 1..Len(keys) :
        /\ keys[j].fullKey \in DOMAIN oldHashes
        /\ oldHashes[keys[j].fullKey].hash # quickHash(keys[j].defaultValue)}}

\* The snapshot as saveHashes leaves it on disk (saveJsonFile sorts the stored
\* default values too).
newHashes(keys) ==
    [fullKey \in {keys[i].fullKey : i \in 1..Len(keys)} |->
        LET extracted == keys[CHOOSE i \in 1..Len(keys) : keys[i].fullKey = fullKey]
        IN [hash |-> quickHash(extracted.defaultValue),
            defaultValue |-> sortDeep(extracted.defaultValue)]]

namespacesOf(keys) == {NsOf(keys[i].fullKey) : i \in 1..Len(keys)}

\* What a non-source language is offered for a key: the default text or its skeleton.
newContent(defaultValue) ==
    IF fillEmptyWithSource THEN defaultValue ELSE generateSkeleton(defaultValue)

\* One iteration of the loop over the keys of a namespace (extract.ts 478-507).
processKey(st, extracted, lang, isChanged) ==
    LET keyPath == PathOf(extracted.fullKey)
        existingValue == getNestedValue(st.json, keyPath)
        isMissing == existingValue = Undef
        mergedValue == mergeDeep(existingValue, newContent(extracted.defaultValue))
    IN IF lang = defaultLanguage
       THEN IF isChanged \/ isMissing
            THEN [json |-> setNestedValue(st.json, keyPath, extracted.defaultValue),
                  fileModified |-> TRUE]
            ELSE st
       ELSE IF existingValue # mergedValue
            THEN [json |-> setNestedValue(st.json, keyPath, mergedValue),
                  fileModified |-> TRUE]
            ELSE st

RECURSIVE processKeys(_, _, _, _, _)
processKeys(st, keys, lang, namespace, chg) ==
    IF keys = <<>> THEN st
    ELSE processKeys(IF NsOf(Head(keys).fullKey) = namespace
                     THEN processKey(st, Head(keys), lang, Head(keys).fullKey \in chg)
                     ELSE st,
                     Tail(keys), lang, namespace, chg)

\* One document of one language: [file |-> content on disk afterwards,
\* saved |-> whether the run wrote the file].
extractDocument(file, keys, lang, namespace, chg) ==
    LET st == processKeys([json |-> loadJsonFile(file), fileModified |-> FALSE],
                          keys, lang, namespace, chg)
    IN IF st.fileModified
       THEN [file |-> saveJsonFile(st.json), saved |-> TRUE]
       ELSE [file |-> ensureNamespaceFile(file), saved |-> file = NoFile]

\* The order in which the directory scan of getNamespaces yields the files.
\* The glob gives no order; the model lists them against the sort order, so
\* that the sort of updateIndexFile has something to do.
GlobOrder == <<"home", "app">>

\* getNamespaces(lang): the names of the *.json files of the language.
getNamespaces(files) == SelectSeq(GlobOrder, LAMBDA ns : files[ns] # NoFile)

RECURSIVE firstOccurrences(_, _)
firstOccurrences(names, seen) ==
    IF names = <<>> THEN <<>>
    ELSE IF Head(names) \in seen THEN firstOccurrences(Tail(names), seen)
    ELSE <<Head(names)>> \o firstOccurrences(Tail(names), seen \cup {Head(names)})

\* The list without the pass through a Set.
keepDuplicates(names) == names

\* [...new Set(names)]: the first occurrence of each name, in order.
uniqueNames(names) == firstOccurrences(names, {})

RECURSIVE sortNames(_, _)
\* [...names].sort(): every occurrence of every name, in sort order.
sortNames(names, order) ==
    IF order = <<>> THEN <<>>
    ELSE SelectSeq(names, LAMBDA ns : ns = Head(order)) \o sortNames(names, Tail(order))

\* The namespaces the index module written by updateIndexFile imports.
updateIndexFile(namespaces) == sortNames(namespaces, NsSorted)

\* The namespaces of the scan, in the insertion order of the Set of extract.
namespaceList(keys) == uniqueNames([i \in 1..Len(keys) |-> NsOf(keys[i].fullKey)])

\* The index extract writes for a language (extract.ts 461-470).
extractIndex(files, keys) ==
    LET ensured == [ns \in AllNamespaces |->
                       IF ns \in namespacesOf(keys) THEN ensureNamespaceFile(files[ns])
                       ELSE files[ns]]
        existingNamespaces == getNamespaces(ensured)
        allNamespaces == uniqueNames(existingNamespaces \o namespaceList(keys))
    IN updateIndexFile(allNamespaces)

\* ------------------------------------------------------------------------
\* Bounded universe of values for calls of mergeDeep
\* ------------------------------------------------------------------------

MaxLen == 2

Leaves == {Str(<<"Merhaba">>), Str(<<"Hello">>), Num("1"), Bool("true")}

KeySeqs == {<<>>, <<"a">>, <<"b">>, <<"a", "b">>, <<"b", "a">>}

SeqsUpTo(S, n) == UNION {[1..m -> S] : m \in 0..n}

ListsOver(S) == {List(items) : items \in SeqsUpTo(S, MaxLen)}

MapsOver(S) ==
    {Map([i \in 1..Len(ks) |-> Entry(ks[i], vs[i])]) :
        <<ks, vs>> \in {p \in KeySeqs \X SeqsUpTo(S, 2) : Len(p[1]) = Len(p[2])}}

Inner ==
    {Str(<<"Merhaba">>), Num("1"), List(<<Str(<<"Hello">>)>>),
     Map(<<Entry("b", Str(<<"Merhaba">>)), Entry("a", Str(<<"Hello">>))>>)}

Values == Leaves \cup ListsOver(Leaves) \cup MapsOver(Leaves)
                 \cup ListsOver(Inner) \cup MapsOver(Inner)

\* ------------------------------------------------------------------------
\* Specification of one call of mergeDeep on arbitrary arguments
\* ------------------------------------------------------------------------

\* The pipeline at rest: nothing scanned, nothing on disk.
PipelineAtRest ==
    /\ hashes = <<>>
    /\ docs = [lang \in LangSet |-> [ns \in AllNamespaces |-> NoFile]]
    /\ index = [lang \in LangSet |-> <<>>]
    /\ cmd = "none"
    /\ added = {}
    /\ changed = {}
    /\ written = {}
    /\ targetLangArg = ""
    /\ tPhase = "idle"
    /\ payloads = <<>>
    /\ results = <<>>
    /\ fetched = 0
    /\ applied = {}
    /\ skipped = {}
    /\ failedCount = 0
    /\ runs = 0
    /\ translatedCount = [lang \in TargetLangs |-> 0]
    /\ missingKeys = [lang \in TargetLangs |-> <<>>]
    /\ percentage = [lang \in TargetLangs |-> 0]

\* applyStrings has not been called.
MirrorAtRest ==
    /\ mValue = Undef
    /\ mStrings = <<>>
    /\ mResult = Undef
    /\ mCursor = -1

\* No source file is under the scanner.
ScannerAtRest ==
    /\ sourceTree = <<>>
    /\ scanKeys = <<>>

\* No tally of translated keys is under way.
TallyAtRest ==
    /\ totalKeys = 0
    /\ doneKeys = 0
    /\ shown = -1
    /\ shownBefore = -1

InitMerge ==
    /\ cleanUnusedKeys = TRUE
    /\ removeEmptyFiles = TRUE
    /\ apiKeySet = TRUE
    /\ syncTranslationsStrictly \in BOOLEAN
    /\ fillEmptyWithSource = TRUE
    /\ codeKeys = <<>>
    /\ PipelineAtRest
    /\ ScannerAtRest
    /\ MirrorAtRest
    /\ TallyAtRest
    /\ pTarget \in Values \cup {Undef}
    /\ pSource \in Values
    /\ pResult = Undef
    /\ pPhase = "ready"

CallMergeDeep ==
    /\ pPhase = "ready"
    /\ pResult' = mergeDeep(pTarget, pSource)
    /\ pPhase' = "returned"
    /\ UNCHANGED <<config, codeKeys, disk, cmd, extractReport, written,
                   pTarget, pSource, translateRun, statusReport, tally, scanner, mirror>>

NextMerge == CallMergeDeep

SpecMerge == InitMerge /\ [][NextMerge]_vars

\* ------------------------------------------------------------------------
\* Specification of one call of generateSkeleton on arbitrary values
\* ------------------------------------------------------------------------

MaxTokens == 3

\* The pieces a text is made of: a word, a blank, a placeholder, tags.
Tokens == {"Hi", " "} \cup Placeholders \cup Tags

Texts == {Str(tokens) : tokens \in SeqsUpTo(Tokens, MaxTokens)}

SkeletonInner == {Str(<<"<b>", "Hi", "{{n}}">>), Str(<<"Hi">>), Num("1")}

SkeletonInputs ==
    Texts \cup {Num("1"), Bool("true")} \cup ListsOver(SkeletonInner) \cup MapsOver(SkeletonInner)

InitSkeleton ==
    /\ cleanUnusedKeys = TRUE
    /\ removeEmptyFiles = TRUE
    /\ apiKeySet = TRUE
    /\ syncTranslationsStrictly = TRUE
    /\ fillEmptyWithSource = FALSE
    /\ codeKeys = <<>>
    /\ PipelineAtRest
    /\ ScannerAtRest
    /\ MirrorAtRest
    /\ TallyAtRest
    /\ pTarget = Undef
    /\ pSource \in SkeletonInputs
    /\ pResult = Undef
    /\ pPhase = "ready"

CallGenerateSkeleton ==
    /\ pPhase = "ready"
    /\ pResult' = generateSkeleton(pSource)
    /\ pPhase' = "returned"
    /\ UNCHANGED <<config, codeKeys, disk, cmd, extractReport, written,
                   pTarget, pSource, translateRun, statusReport, tally, scanner, mirror>>

NextSkeleton == CallGenerateSkeleton

SpecSkeleton == InitSkeleton /\ [][NextSkeleton]_vars

\* ------------------------------------------------------------------------
\* Specification of the command pipeline: the developer edits the source,
\* translators edit documents, and extract runs.
\* ------------------------------------------------------------------------

MaxCallSites == 2

CallSite(fullKey, defaultValue) == [fullKey |-> fullKey, defaultValue |-> defaultValue]

\* The t() calls a source tree may contain.
CallSites ==
    {CallSite("app:a", Str(<<"Hello">>)),
     CallSite("app:a", Str(<<"Bye">>)),
     CallSite("app:a", Map(<<Entry("b", Str(<<"Hello">>)), Entry("a", Str(<<"Bye">>))>>)),
     CallSite("app:a.b", Str(<<"Hello">>)),
     CallSite("home:t", Str(<<"Hi", " ", "{{n}}">>))}

KeyRank(fullKey) == CHOOSE i \in 1..Len(FullKeys) : FullKeys[i] = fullKey

\* Whether one key path is a proper dotted prefix of the other.
IsPrefix(p, q) == Len(p) < Len(q) /\ SubSeq(q, 1, Len(p)) = p

Conflict(k1, k2) ==
    /\ NsOf(k1) = NsOf(k2)
    /\ IsPrefix(PathOf(k1), PathOf(k2)) \/ IsPrefix(PathOf(k2), PathOf(k1))

\* A scan result: call sites in visiting order, one record per full key.  The
\* visiting order of two keys matters only when one key path is a dotted
\* prefix of the other; other keys are listed in one order.
CodeVersions ==
    {keys \in SeqsUpTo(CallSites, MaxCallSites) :
        \A i, j \in 1..Len(keys) : i < j =>
            /\ keys[i].fullKey # keys[j].fullKey
            /\ \/ Conflict(keys[i].fullKey, keys[j].fullKey)
               \/ KeyRank(keys[i].fullKey) < KeyRank(keys[j].fullKey)}

\* The languages whose documents people edit by hand in the model.
EditedLangs == {"en", "tr"}

\* What a person types into a document.
HumanText == Str(<<"Merhaba">>)

Init ==
    /\ cleanUnusedKeys = TRUE
    /\ removeEmptyFiles = TRUE
    /\ apiKeySet = TRUE
    /\ syncTranslationsStrictly \in BOOLEAN
    /\ fillEmptyWithSource \in BOOLEAN
    /\ codeKeys = <<>>
    /\ PipelineAtRest
    /\ ScannerAtRest
    /\ MirrorAtRest
    /\ TallyAtRest
    /\ pTarget = Undef
    /\ pSource = Undef
    /\ pResult = Undef
    /\ pPhase = "ready"

\* The developer changes the source tree.
EditSource ==
    /\ cmd # "edit"
    /\ \E keys \in CodeVersions \ {codeKeys} : codeKeys' = keys
    /\ cmd' = "edit"
    /\ added' = {}
    /\ changed' = {}
    /\ written' = {}
    /\ UNCHANGED <<config, disk, mergeCall, translateRun, statusReport, tally, scanner, mirror>>

\* A person replaces the string stored at a key path of a document.
ManualEdit ==
    /\ \E lang \in EditedLangs, fullKey \in DOMAIN KeyTable :
        LET file == docs[lang][NsOf(fullKey)]
        IN /\ file # NoFile
           /\ getNestedValue(file, PathOf(fullKey)).kind = "str"
           /\ getNestedValue(file, PathOf(fullKey)) # HumanText
           /\ docs' = [docs EXCEPT ![lang][NsOf(fullKey)] =
                          setNestedValue(file, PathOf(fullKey), HumanText)]
    /\ cmd' = "manual"
    /\ added' = {}
    /\ changed' = {}
    /\ written' = {}
    /\ UNCHANGED <<config, codeKeys, hashes, index, mergeCall, translateRun, statusReport, tally, scanner, mirror>>

ExtractRan == cmd \in {"extract", "extract2"}

\* The extract command (extract.ts 437-524).
Extract ==
    LET keys == codeKeys
        chg == changedKeys(keys, hashes)
        namespaces == namespacesOf(keys)
        result == [lang \in LangSet |-> [ns \in namespaces |->
                      extractDocument(docs[lang][ns], keys, lang, ns, chg)]]
    IN /\ docs' = [lang \in LangSet |-> [ns \in AllNamespaces |->
                      IF ns \in namespaces THEN result[lang][ns].file ELSE docs[lang][ns]]]
       /\ index' = [lang \in LangSet |-> extractIndex(docs[lang], keys)]
       /\ hashes' = newHashes(keys)
       /\ added' = addedKeys(keys, hashes)
       /\ changed' = chg
       /\ written' = {<<lang, ns>> \in LangSet \X namespaces : result[lang][ns].saved}
       /\ cmd' = (IF ExtractRan THEN "extract2" ELSE "extract")
       /\ UNCHANGED <<config, codeKeys, mergeCall, translateRun, statusReport, tally, scanner, mirror>>

Next == EditSource \/ ManualEdit \/ Extract

Spec == Init /\ [][Next]_vars

\* ------------------------------------------------------------------------
\* Cleaner (i18n/clean.ts)
\* ------------------------------------------------------------------------

\* The string `${namespace}:${path}` as its two parts; path is the sequence of
\* the segments between the dots.
fullKeyOf(namespace, keyPath) == [namespace |-> namespace, keyPath |-> keyPath]

\* fullKey.split(':').slice(1).join(':') followed by split('.') (namespaces of
\* the model contain no colon).
keyPathOf(fullKey) == fullKey.keyPath

\* new Set(validKeysMap.keys())
validKeys(keys) ==
    {fullKeyOf(NsOf(keys[i].fullKey), PathOf(keys[i].fullKey)) : i \in 1..Len(keys)}

RECURSIVE getFlattenedKeys(_, _, _, _)
RECURSIVE flattenEntries(_, _, _, _)
RECURSIVE flattenEntriesDeep(_, _, _, _)

\* The loop of getFlattenedKeys without the test for known keys: the value
\* of a known key is flattened like any other mapping.
flattenEntriesDeep(entries, namespace, validKeysSet, prefix) ==
    IF entries = <<>> THEN <<>>
    ELSE LET currentPath == Append(prefix, Head(entries).k)
             fullKey == fullKeyOf(namespace, currentPath)
             value == Head(entries).v
         IN (IF value.kind = "map"
             THEN getFlattenedKeys(value, namespace, validKeysSet, currentPath)
             ELSE <<fullKey>>)
            \o flattenEntriesDeep(Tail(entries), namespace, validKeysSet, prefix)

\* The loop of getFlattenedKeys over Object.entries(obj).
flattenEntries(entries, namespace, validKeysSet, prefix) ==
    IF entries = <<>> THEN <<>>
    ELSE LET currentPath == Append(prefix, Head(entries).k)
             fullKey == fullKeyOf(namespace, currentPath)
             value == Head(entries).v
         IN (IF fullKey \in validKeysSet THEN <<fullKey>>
             ELSE IF value.kind = "map"
             THEN getFlattenedKeys(value, namespace, validKeysSet, currentPath)
             ELSE <<fullKey>>)
            \o flattenEntries(Tail(entries), namespace, validKeysSet, prefix)

getFlattenedKeys(obj, namespace, validKeysSet, prefix) ==
    flattenEntries(ObjEntries(obj), namespace, validKeysSet, prefix)

\* delete obj[key]
EDel(entries, key) == SelectSeq(entries, LAMBDA e : e.k # key)

RECURSIVE removeNestedKey(_, _)

\* removeNestedKey without the deletion of an emptied child.
removeNestedKeyNoCollapse(obj, keyPath) ==
    IF Len(keyPath) = 1 THEN Map(EDel(ObjEntries(obj), Head(keyPath)))
    ELSE LET currentKey == Head(keyPath)
             child == ObjGet(obj, currentKey)
         IN IF HasKey(ObjEntries(obj), currentKey) /\ TypeOf(child) = "object"
            THEN Map(ESet(ObjEntries(obj), currentKey,
                          removeNestedKey(child, Tail(keyPath))))
            ELSE Map(ObjEntries(obj))

removeNestedKey(obj, keyPath) ==
    IF Len(keyPath) = 1 THEN Map(EDel(ObjEntries(obj), Head(keyPath)))
    ELSE LET currentKey == Head(keyPath)
             child == ObjGet(obj, currentKey)
         IN IF HasKey(ObjEntries(obj), currentKey) /\ TypeOf(child) = "object"
            THEN LET updatedChild == removeNestedKey(child, Tail(keyPath))
                 IN IF Len(ObjKeys(updatedChild)) = 0
                    THEN Map(EDel(ObjEntries(obj), currentKey))
                    ELSE Map(ESet(ObjEntries(obj), currentKey, updatedChild))
            ELSE Map(ObjEntries(obj))

RECURSIVE removeKeys(_, _)

\* The loop over keysToRemove stopped after its first iteration.
removeFirstKey(json, keysToRemove) ==
    IF keysToRemove = <<>> THEN json
    ELSE removeNestedKey(json, keyPathOf(Head(keysToRemove)))

\* The loop over keysToRemove (clean.ts 118-125).
removeKeys(json, keysToRemove) ==
    IF keysToRemove = <<>> THEN json
    ELSE removeKeys(removeNestedKey(json, keyPathOf(Head(keysToRemove))), Tail(keysToRemove))

\* One document of one language (clean.ts 105-144): [file |-> the file
\* afterwards, saved |-> whether the run wrote it, removed |-> keysToRemove].
cleanDocument(file, namespace, validKeysSet) ==
    LET fileKeys == getFlattenedKeys(loadJsonFile(file), namespace, validKeysSet, <<>>)
        keysToRemove == SelectSeq(fileKeys, LAMBDA key : key \notin validKeysSet)
        json == removeKeys(loadJsonFile(file), keysToRemove)
    IN IF keysToRemove = <<>>
       THEN [file |-> file, saved |-> FALSE, removed |-> keysToRemove]
       ELSE IF Len(ObjKeys(json)) = 0
       THEN IF removeEmptyFiles
            THEN [file |-> NoFile, saved |-> FALSE, removed |-> keysToRemove]
            ELSE [file |-> saveJsonFile(Map(<<>>)), saved |-> TRUE, removed |-> keysToRemove]
       ELSE [file |-> saveJsonFile(json), saved |-> TRUE, removed |-> keysToRemove]

\* The snapshot without the entries of keys that are not in the code.
cleanHashes(oldHashes, keys) ==
    [fullKey \in {k \in DOMAIN oldHashes : \E i \in 1..Len(keys) : keys[i].fullKey = k} |->
        oldHashes[fullKey]]

\* The clean command (clean.ts 84-172).
Clean ==
    /\ cmd' = "clean"
    /\ added' = {}
    /\ changed' = {}
    /\ IF ~cleanUnusedKeys
       THEN /\ written' = {}
            /\ UNCHANGED disk
       ELSE \E result \in {[lang \in LangSet |-> [ns \in AllNamespaces |->
                                cleanDocument(docs[lang][ns], ns, validKeys(codeKeys))]]} :
               /\ docs' = [lang \in LangSet |-> [ns \in AllNamespaces |->
                              IF docs[lang][ns] = NoFile THEN NoFile
                              ELSE result[lang][ns].file]]
               /\ index' = [lang \in LangSet |-> updateIndexFile(getNamespaces(docs'[lang]))]
               /\ hashes' = cleanHashes(hashes, codeKeys)
               /\ written' = {<<lang, ns>> \in LangSet \X AllNamespaces :
                                 docs[lang][ns] # NoFile /\ result[lang][ns].saved}
    /\ UNCHANGED <<config, codeKeys, mergeCall, translateRun, statusReport, tally, scanner, mirror>>

\* ------------------------------------------------------------------------
\* Specification of extract and clean over a changing source tree
\* ------------------------------------------------------------------------

\* Call sites of the source trees that are cleaned: a nested key, a sibling
\* in the same namespace, a key with a mapping as default value (written
\* with its keys in sorted order and not) and a key of another namespace.
CleanCallSites ==
    {CallSite("app:a.b", Str(<<"Hello">>)),
     CallSite("app:a", Map(<<Entry("a", Str(<<"Bye">>)), Entry("b", Str(<<"Hello">>))>>)),
     CallSite("app:a", Map(<<Entry("b", Str(<<"Hello">>)), Entry("a", Str(<<"Bye">>))>>)),
     CallSite("app:n", Str(<<"Bye">>)),
     CallSite("home:t", Str(<<"Hi", " ", "{{n}}">>))}

CleanScans ==
    {keys \in SeqsUpTo(CleanCallSites, MaxCallSites) :
        \A i, j \in 1..Len(keys) : i < j =>
            KeyRank(keys[i].fullKey) < KeyRank(keys[j].fullKey)}

InitClean ==
    /\ cleanUnusedKeys \in BOOLEAN
    /\ removeEmptyFiles \in BOOLEAN
    /\ apiKeySet = TRUE
    /\ syncTranslationsStrictly = TRUE
    /\ fillEmptyWithSource \in BOOLEAN
    /\ codeKeys = <<>>
    /\ PipelineAtRest
    /\ ScannerAtRest
    /\ MirrorAtRest
    /\ TallyAtRest
    /\ pTarget = Undef
    /\ pSource = Undef
    /\ pResult = Undef
    /\ pPhase = "ready"

\* The developer adds and removes call sites.
EditCallSites ==
    /\ cmd # "edit"
    /\ \E keys \in CleanScans \ {codeKeys} : codeKeys' = keys
    /\ cmd' = "edit"
    /\ added' = {}
    /\ changed' = {}
    /\ written' = {}
    /\ UNCHANGED <<config, disk, mergeCall, translateRun, statusReport, tally, scanner, mirror>>

NextClean == EditCallSites \/ Extract \/ Clean

SpecClean == InitClean /\ [][NextClean]_vars

\* ------------------------------------------------------------------------
\* Specification of extract over documents that get lost or damaged
\* ------------------------------------------------------------------------

InitRepair ==
    /\ cleanUnusedKeys = TRUE
    /\ removeEmptyFiles = TRUE
    /\ apiKeySet = TRUE
    /\ syncTranslationsStrictly = TRUE
    /\ fillEmptyWithSource \in BOOLEAN
    /\ codeKeys = <<>>
    /\ PipelineAtRest
    /\ ScannerAtRest
    /\ MirrorAtRest
    /\ TallyAtRest
    /\ pTarget = Undef
    /\ pSource = Undef
    /\ pResult = Undef
    /\ pPhase = "ready"

\* A document file is deleted, or its text stops being JSON (a broken manual
\* edit, an unresolved merge conflict).  The model damages one document
\* between two runs, of the source language or of one other language.
DamageDocument ==
    /\ ExtractRan
    /\ \E lang \in EditedLangs, ns \in AllNamespaces, broken \in {NoFile, Corrupt} :
          /\ docs[lang][ns] \notin {NoFile, Corrupt}
          /\ docs' = [docs EXCEPT ![lang][ns] = broken]
    /\ cmd' = "damage"
    /\ added' = {}
    /\ changed' = {}
    /\ written' = {}
    /\ UNCHANGED <<config, codeKeys, hashes, index, mergeCall, translateRun, statusReport, tally, scanner, mirror>>

NextRepair == EditCallSites \/ DamageDocument \/ Extract

SpecRepair == InitRepair /\ [][NextRepair]_vars

\* ------------------------------------------------------------------------
\* Batch translator (i18n/translate.ts)
\* ------------------------------------------------------------------------

\* The element of a one-element set.  Only({e : x \in {v}}) is e with x bound
\* to the value of v, which is computed once.
Only(S) == CHOOSE x \in S : TRUE

\* Strings per request.  The source sets 50; the model scales it down so that
\* items end inside a batch and straddle batch borders.
BATCH_SIZE == 2

RECURSIVE translateGetNestedValue(_, _)
\* keyPath.split('.').reduce((o, k) => (o || {})[k], obj)
translateGetNestedValue(obj, keyPath) ==
    IF keyPath = <<>> THEN obj
    ELSE translateGetNestedValue(ObjGet(obj, Head(keyPath)), Tail(keyPath))

RECURSIVE translateSetNestedValue(_, _, _)
\* obj is a mapping or, on the way down, an array (whose named property
\* JSON.stringify does not see).
translateSetNestedValue(obj, keyPath, value) ==
    IF obj.kind = "list" THEN obj
    ELSE IF Len(keyPath) = 1 THEN Map(ESet(obj.items, Head(keyPath), value))
    ELSE LET key == Head(keyPath)
             child == ObjGet(obj, key)
             cur == IF TypeOf(child) = "object" THEN child ELSE Map(<<>>)
         IN Map(ESet(obj.items, key, translateSetNestedValue(cur, Tail(keyPath), value)))

\* value.trim() === ''
IsBlank(value) == \A i \in 1..Len(value.text) : value.text[i] = " "

isTranslated(value, defaultValue) ==
    IF value = Undef THEN FALSE
    ELSE IF value.kind = "str" /\ IsBlank(value) THEN FALSE
    ELSE value # generateSkeleton(defaultValue)

RECURSIVE flattenStrings(_)
RECURSIVE flattenEach(_)
\* values.flatMap((item) => flattenStrings(item))
flattenEach(values) ==
    IF values = <<>> THEN <<>>
    ELSE flattenStrings(Head(values)) \o flattenEach(Tail(values))

\* The string leaves of a value in traversal order; a string is its token sequence.
flattenStrings(value) ==
    IF value.kind = "str" THEN <<value.text>>
    ELSE IF value.kind = "list" THEN flattenEach(value.items)
    ELSE IF value.kind = "map"
    THEN flattenEach([i \in 1..Len(value.items) |-> value.items[i].v])
    ELSE <<>>

RECURSIVE applyStrings(_, _, _)
RECURSIVE applyEach(_, _, _)
\* The children of an array or object, rebuilt one after the other with the
\* shared cursor: [values, i].
applyEach(values, strings, cursor) ==
    IF values = <<>> THEN [values |-> <<>>, i |-> cursor]
    ELSE LET first == applyStrings(Head(values), strings, cursor)
             rest == applyEach(Tail(values), strings, first.i)
         IN [values |-> <<first.value>> \o rest.values, i |-> rest.i]

RECURSIVE applyStringsOr(_, _, _)
\* applyStrings with strings[cursor.i++] || value: an empty string of the
\* response is not taken.
applyStringsOr(value, strings, cursor) ==
    IF value.kind = "str"
    THEN [value |-> IF cursor + 1 <= Len(strings) /\ strings[cursor + 1] # <<>>
                    THEN Str(strings[cursor + 1]) ELSE value,
          i |-> cursor + 1]
    ELSE IF value.kind = "list"
    THEN LET r == applyEach(value.items, strings, cursor)
         IN [value |-> List(r.values), i |-> r.i]
    ELSE IF value.kind = "map"
    THEN LET r == applyEach([j \in 1..Len(value.items) |-> value.items[j].v], strings, cursor)
         IN [value |-> Map([j \in 1..Len(value.items) |->
                               Entry(value.items[j].k, r.values[j])]),
             i |-> r.i]
    ELSE [value |-> value, i |-> cursor]

\* [value |-> the rebuilt value, i |-> the cursor afterwards]; cursor counts
\* the strings consumed so far.
applyStrings(value, strings, cursor) ==
    IF value.kind = "str"
    THEN [value |-> IF cursor + 1 <= Len(strings) THEN Str(strings[cursor + 1]) ELSE value,
          i |-> cursor + 1]
    ELSE IF value.kind = "list"
    THEN LET r == applyEach(value.items, strings, cursor)
         IN [value |-> List(r.values), i |-> r.i]
    ELSE IF value.kind = "map"
    THEN LET r == applyEach([j \in 1..Len(value.items) |-> value.items[j].v], strings, cursor)
         IN [value |-> Map([j \in 1..Len(value.items) |->
                               Entry(value.items[j].k, r.values[j])]),
             i |-> r.i]
    ELSE [value |-> value, i |-> cursor]

\* The untranslated items of a language, namespace by namespace in sort()
\* order and key by key in localeCompare order; files is docs[lang].
collectUntranslated(files) ==
    LET nsKeys(ns) == SelectSeq(FullKeys, LAMBDA fullKey :
                          fullKey \in DOMAIN hashes /\ NsOf(fullKey) = ns)
        itemsOf(ns) ==
            LET json == loadJsonFile(files[ns])
                open == SelectSeq(nsKeys(ns), LAMBDA fullKey :
                            ~isTranslated(translateGetNestedValue(json, SecondOf(fullKey)),
                                          hashes[fullKey].defaultValue))
            IN [i \in 1..Len(open) |->
                   [namespace |-> ns, keyPath |-> SecondOf(open[i]),
                    defaultValue |-> hashes[open[i]].defaultValue]]
        namespaces == SelectSeq(NsSorted, LAMBDA ns : nsKeys(ns) # <<>>)
        each[n \in 0..Len(namespaces)] ==
            IF n = 0 THEN <<>> ELSE each[n - 1] \o itemsOf(namespaces[n])
    IN each[Len(namespaces)]

\* The second copy of collectUntranslated, which takes the key path with
\* fullKey.slice(ns.length + 1); its getNestedValue (o?.[k]) and isTranslated
\* give what the first copy's give on the values of the model.
collectUntranslatedSlice(files) ==
    LET nsKeys(ns) == SelectSeq(FullKeys, LAMBDA fullKey :
                          fullKey \in DOMAIN hashes /\ NsOf(fullKey) = ns)
        itemsOf(ns) ==
            LET json == loadJsonFile(files[ns])
                open == SelectSeq(nsKeys(ns), LAMBDA fullKey :
                            ~isTranslated(translateGetNestedValue(json, PathOf(fullKey)),
                                          hashes[fullKey].defaultValue))
            IN [i \in 1..Len(open) |->
                   [namespace |-> ns, keyPath |-> PathOf(open[i]),
                    defaultValue |-> hashes[open[i]].defaultValue]]
        namespaces == SelectSeq(NsSorted, LAMBDA ns : nsKeys(ns) # <<>>)
        each[n \in 0..Len(namespaces)] ==
            IF n = 0 THEN <<>> ELSE each[n - 1] \o itemsOf(namespaces[n])
    IN each[Len(namespaces)]

\* items.flatMap((item) => flattenStrings(item.defaultValue))
allStringsOf(items) == flattenEach([i \in 1..Len(items) |-> items[i].defaultValue])

Min(a, b) == IF a < b THEN a ELSE b

\* The requests of one language (translate.ts 268-275).
batchesOf(lang, allStrings) ==
    LET batchCount == (Len(allStrings) + BATCH_SIZE - 1) \div BATCH_SIZE
    IN [n \in 1..batchCount |->
           [batchId |-> n - 1, language |-> lang,
            strings |-> SubSeq(allStrings, (n - 1) * BATCH_SIZE + 1,
                               Min(n * BATCH_SIZE, Len(allStrings)))]]

\* The languages a run translates; arg is the command-line argument, "" when absent.
targetLanguages(arg) ==
    IF arg # ""
    THEN SelectSeq(<<arg>>, LAMBDA l : l \in LangSet /\ l # defaultLanguage)
    ELSE SelectSeq(languages, LAMBDA l : l # defaultLanguage)

\* Every request of the run, language after language.
buildPayloads(targets) ==
    LET each[n \in 0..Len(targets)] ==
            IF n = 0 THEN <<>>
            ELSE each[n - 1] \o
                 batchesOf(targets[n], allStringsOf(collectUntranslated(docs[targets[n]])))
    IN each[Len(targets)]

\* What the translation service makes of a token: words are translated,
\* placeholders, tags and blanks are preserved.
translateToken(lang, token) ==
    CASE token = "Hello" -> IF lang = "tr" THEN "Merhaba" ELSE "Bonjour"
      [] token = "Bye" -> IF lang = "tr" THEN "Elveda" ELSE "Adieu"
      [] token = "Hi" -> IF lang = "tr" THEN "Selam" ELSE "Salut"
      [] OTHER -> token

translateText(lang, text) == [i \in 1..Len(text) |-> translateToken(lang, text[i])]

\* An HTTP exchange with the service: ok is res.ok, json whether the text of
\* the answer parses, strings the parsed array.
Reply(ok, json, strings) == [arrived |-> TRUE, ok |-> ok, json |-> json, strings |-> strings]

\* The exchange has not finished.
NoReply == [arrived |-> FALSE, ok |-> FALSE, json |-> FALSE, strings |-> <<>>]

\* The answers the model lets the service give to a request: the
\* translations, the strings unchanged, an error status, a text that is not
\* JSON, an array one element short and an array one element long.
Replies(payload) ==
    LET n == Len(payload.strings)
    IN {Reply(TRUE, TRUE, [i \in 1..n |-> translateText(payload.language, payload.strings[i])]),
        Reply(TRUE, TRUE, payload.strings),
        Reply(FALSE, FALSE, <<>>),
        Reply(TRUE, FALSE, <<>>),
        Reply(TRUE, TRUE, Tail(payload.strings)),
        Reply(TRUE, TRUE, Append(payload.strings, <<"Hello">>))}

\* The promise callAI returns.
Promise(status, payload, strings) ==
    [status |-> status, batchId |-> payload.batchId, language |-> payload.language,
     strings |-> strings]

\* callAI without the comparison of the answer's length with the request's.
callAIUnchecked(payload, reply) ==
    IF ~apiKeySet THEN Promise("rejected", payload, <<>>)
    ELSE IF ~reply.arrived THEN Promise("pending", payload, <<>>)
    ELSE IF ~reply.ok THEN Promise("rejected", payload, <<>>)
    ELSE IF ~reply.json THEN Promise("rejected", payload, <<>>)
    ELSE Promise("fulfilled", payload, reply.strings)

callAI(payload, reply) ==
    IF ~apiKeySet THEN Promise("rejected", payload, <<>>)
    ELSE IF ~reply.arrived THEN Promise("pending", payload, <<>>)
    ELSE IF ~reply.ok THEN Promise("rejected", payload, <<>>)
    ELSE IF ~reply.json THEN Promise("rejected", payload, <<>>)
    ELSE IF Len(reply.strings) # Len(payload.strings) THEN Promise("rejected", payload, <<>>)
    ELSE Promise("fulfilled", payload, reply.strings)

\* Promise.all in the place of Promise.allSettled: the first rejection rejects the whole.
allRejectOnFirst(promises) ==
    IF \E i \in 1..Len(promises) : promises[i].status = "rejected"
    THEN [status |-> "rejected", value |-> <<>>]
    ELSE [status |-> "fulfilled", value |-> promises]

\* Promise.allSettled of settled promises: fulfilled with every outcome.
allSettled(promises) == [status |-> "fulfilled", value |-> promises]

\* The full key of a collected item.
ItemKey(item) ==
    CHOOSE fullKey \in DOMAIN KeyTable :
        NsOf(fullKey) = item.namespace /\ PathOf(fullKey) = item.keyPath

\* Offset of every item in the flat string array, and the array's length.
offsetsOf(items) ==
    LET upTo[n \in 0..Len(items)] ==
            IF n = 0 THEN 0 ELSE upTo[n - 1] + Len(flattenStrings(items[n].defaultValue))
    IN [offsets |-> [idx \in 1..Len(items) |-> upTo[idx - 1]], total |-> upTo[Len(items)]]

\* The slots of the flat array: filled by the response whose batch covers the
\* position, empty (null) otherwise.
translatedSlots(responses, total) ==
    [pos \in 1..total |->
        LET hits == {r \in 1..Len(responses) :
                        /\ pos - 1 >= responses[r].batchId * BATCH_SIZE
                        /\ pos - 1 < responses[r].batchId * BATCH_SIZE + Len(responses[r].strings)}
        IN IF hits = {} THEN [filled |-> FALSE, s |-> <<>>]
           ELSE LET r == CHOOSE h \in hits : \A g \in hits : g <= h
                IN [filled |-> TRUE,
                    s |-> responses[r].strings[pos - responses[r].batchId * BATCH_SIZE]]]

\* The namespaces' documents after the changes of the applied items done
\* have been set and every changed document saved.
writeChanges(files, items, done, values) ==
    LET nsChanges(ns) == SelectSeq(done, LAMBDA idx : items[idx].namespace = ns)
        write(ns) ==
            LET changes == nsChanges(ns)
                json[n \in 0..Len(changes)] ==
                    IF n = 0 THEN loadJsonFile(files[ns])
                    ELSE translateSetNestedValue(json[n - 1], items[changes[n]].keyPath,
                                                 values[changes[n]])
            IN saveJsonFile(json[Len(changes)])
    IN [ns \in AllNamespaces |-> IF nsChanges(ns) # <<>> THEN write(ns) ELSE files[ns]]

\* applyTranslations(lang, responses) on the documents files of lang:
\* [files |-> the documents afterwards, applied |-> the keys applied,
\*  saved |-> the namespaces written, collected |-> the keys collected].
applyTranslations(responses, files) ==
    Only({Only({Only({
        LET count(idx) == Len(flattenStrings(items[idx].defaultValue))
            slice(idx) == SubSeq(translated, off.offsets[idx] + 1, off.offsets[idx] + count(idx))
            newValue(idx) ==
                applyStrings(items[idx].defaultValue,
                             [j \in 1..count(idx) |-> slice(idx)[j].s], 0).value
        IN Only({[files |-> writeChanges(files, items, done,
                                         [idx \in 1..Len(items) |-> newValue(idx)]),
                  applied |-> {ItemKey(items[done[i]]) : i \in 1..Len(done)},
                  saved |-> {items[done[i]].namespace : i \in 1..Len(done)},
                  collected |-> {ItemKey(items[i]) : i \in 1..Len(items)}] :
                    done \in {SelectSeq([idx \in 1..Len(items) |-> idx], LAMBDA idx :
                                 \A j \in 1..count(idx) : slice(idx)[j].filled)}}) :
            translated \in {translatedSlots(responses, off.total)}}) :
            off \in {offsetsOf(items)}}) :
            items \in {collectUntranslated(files)}})

\* ------------------------------------------------------------------------
\* Specification of the translator: one extract of a scanned source tree,
\* then translate runs whose requests settle in any order.
\* ------------------------------------------------------------------------

\* Translate runs a behaviour starts.
MaxRuns == 2

\* Command-line arguments of translate: no argument (""), a target
\* language, the source language and a language that is not configured.
LangArgs == {"", "fr", "en", "de"}

\* Call sites of the source trees that are translated: a string, a number, a
\* list of two strings, an empty list, a sentence with a placeholder and a
\* string that is only a placeholder.
TranslateCallSites ==
    {CallSite("app:a", Str(<<"Hello">>)),
     CallSite("app:n", Num("5")),
     CallSite("app:n", List(<<Str(<<"Hello">>), Str(<<"Bye">>)>>)),
     CallSite("app:n", List(<<>>)),
     CallSite("home:t", Str(<<"Hi", " ", "{{n}}">>)),
     CallSite("home:t", Str(<<"{{n}}">>))}

\* Scan results over these call sites (no key path is a prefix of another).
TranslateScans ==
    {keys \in SeqsUpTo(TranslateCallSites, 3) :
        /\ keys # <<>>
        /\ \A i, j \in 1..Len(keys) : i < j =>
              KeyRank(keys[i].fullKey) < KeyRank(keys[j].fullKey)}

InitTranslate ==
    /\ cleanUnusedKeys = TRUE
    /\ removeEmptyFiles = TRUE
    /\ apiKeySet \in BOOLEAN
    /\ syncTranslationsStrictly = TRUE
    /\ fillEmptyWithSource \in BOOLEAN
    /\ codeKeys \in TranslateScans
    /\ PipelineAtRest
    /\ ScannerAtRest
    /\ MirrorAtRest
    /\ TallyAtRest
    /\ pTarget = Undef
    /\ pSource = Undef
    /\ pResult = Undef
    /\ pPhase = "ready"

\* The first extract of the source tree.
ExtractFirst ==
    /\ DOMAIN hashes = {}
    /\ tPhase # "pending"
    /\ Extract

\* translate(targetLangArg) up to the await of the requests (translate.ts
\* 231-289): collect, build the requests and start every call.  A call
\* without credential is rejected before it sends anything.
TranslateStart ==
    /\ tPhase \in {"idle", "returned"}
    /\ runs < MaxRuns
    /\ \E arg \in LangArgs :
        \E ps \in {buildPayloads(IF DOMAIN hashes = {} THEN <<>> ELSE targetLanguages(arg))} :
           /\ targetLangArg' = arg
           /\ payloads' = ps
           /\ results' = [i \in 1..Len(ps) |-> callAI(ps[i], NoReply)]
           /\ fetched' = Cardinality({i \in 1..Len(ps) : callAI(ps[i], NoReply).status = "pending"})
           /\ tPhase' = (IF ps = <<>> THEN "returned" ELSE "pending")
           /\ applied' = (IF ps = <<>> THEN {} ELSE applied)
           /\ skipped' = (IF ps = <<>> THEN {} ELSE skipped)
    /\ failedCount' = 0
    /\ written' = {}
    /\ runs' = runs + 1
    /\ cmd' = "translate"
    /\ UNCHANGED <<config, codeKeys, disk, extractReport, mergeCall, apiKeySet, statusReport, tally, scanner, mirror>>

\* Request i settles: the service answers, or the exchange fails.
SettleBatch(i) ==
    /\ tPhase = "pending"
    /\ results[i].status = "pending"
    /\ \E reply \in Replies(payloads[i]) :
          results' = [results EXCEPT ![i] = callAI(payloads[i], reply)]
    /\ UNCHANGED <<config, codeKeys, disk, cmd, extractReport, written, mergeCall,
                   apiKeySet, targetLangArg, tPhase, payloads, fetched, applied, skipped,
                   failedCount, runs, statusReport, tally, scanner, mirror>>

\* The requests settle one at a time, in any order.
Settle == \E i \in 1..Len(payloads) : SettleBatch(i)

\* The languages the run built requests for.
payloadLanguages == {payloads[i].language : i \in 1..Len(payloads)}

\* The rest of translate once every request has settled (translate.ts
\* 289-317): group the fulfilled responses by language, apply them, count
\* the failures.
TranslateFinish ==
    /\ tPhase = "pending"
    /\ \A i \in 1..Len(results) : results[i].status # "pending"
    /\ LET settled == allSettled(results)
       IN IF settled.status = "rejected"
          THEN /\ tPhase' = "failed"
               /\ UNCHANGED <<docs, applied, skipped, failedCount, written>>
          ELSE LET outcomes == settled.value
                   responsesOf(lang) == SelectSeq(outcomes, LAMBDA r :
                                            r.status = "fulfilled" /\ r.language = lang)
                   fulfilledByLang == {lang \in LangSet : responsesOf(lang) # <<>>}
               IN \E run \in {{[lang |-> lang,
                                  out |-> applyTranslations(responsesOf(lang), docs[lang])] :
                                    lang \in payloadLanguages}} :
                  LET outOf(lang) == (CHOOSE r \in run : r.lang = lang).out
                  IN /\ docs' = [lang \in LangSet |->
                                    IF lang \in fulfilledByLang
                                    THEN outOf(lang).files ELSE docs[lang]]
                     /\ applied' = {<<lang, fullKey>> \in fulfilledByLang \X DOMAIN KeyTable :
                                       fullKey \in outOf(lang).applied}
                     /\ skipped' = {<<lang, fullKey>> \in payloadLanguages \X DOMAIN KeyTable :
                                       /\ fullKey \in outOf(lang).collected
                                       /\ <<lang, fullKey>> \notin applied'}
                     /\ failedCount' = Cardinality({i \in 1..Len(outcomes) :
                                                       outcomes[i].status = "rejected"})
                     /\ written' = {<<lang, ns>> \in fulfilledByLang \X AllNamespaces :
                                       ns \in outOf(lang).saved}
                     /\ tPhase' = "returned"
    /\ UNCHANGED <<config, codeKeys, hashes, index, cmd, extractReport, mergeCall,
                   apiKeySet, targetLangArg, payloads, results, fetched, runs,
                   statusReport, tally, scanner, mirror>>

NextTranslate == ExtractFirst \/ TranslateStart \/ Settle \/ TranslateFinish

SpecTranslate == InitTranslate /\ [][NextTranslate]_vars

\* ------------------------------------------------------------------------
\* Specification of the translator over source trees where one key path is
\* a dotted prefix of another
\* ------------------------------------------------------------------------

FrameCallSites ==
    {CallSite("app:a", Str(<<"Hello">>)),
     CallSite("app:a", Num("5")),
     CallSite("app:a.b", Str(<<"Hello">>)),
     CallSite("home:t", Str(<<"Hi", " ", "{{n}}">>))}

\* Scan results over these call sites; the keys a and a.b in both visiting
\* orders.
FrameScans ==
    {keys \in SeqsUpTo(FrameCallSites, 3) :
        /\ keys # <<>>
        /\ \A i, j \in 1..Len(keys) : i < j =>
              /\ keys[i].fullKey # keys[j].fullKey
              /\ \/ Conflict(keys[i].fullKey, keys[j].fullKey)
                 \/ KeyRank(keys[i].fullKey) < KeyRank(keys[j].fullKey)}

InitFrame ==
    /\ cleanUnusedKeys = TRUE
    /\ removeEmptyFiles = TRUE
    /\ apiKeySet \in BOOLEAN
    /\ syncTranslationsStrictly = TRUE
    /\ fillEmptyWithSource \in BOOLEAN
    /\ codeKeys \in FrameScans
    /\ PipelineAtRest
    /\ ScannerAtRest
    /\ MirrorAtRest
    /\ TallyAtRest
    /\ pTarget = Undef
    /\ pSource = Undef
    /\ pResult = Undef
    /\ pPhase = "ready"

SpecFrame == InitFrame /\ [][NextTranslate]_vars

\* ------------------------------------------------------------------------
\* Status reporter (i18n/status.ts)
\* ------------------------------------------------------------------------

RECURSIVE statusGetNestedValue(_, _)
\* keyPath.split('.').reduce((o, k) => (o || {})[k], obj)
statusGetNestedValue(obj, keyPath) ==
    IF keyPath = <<>> THEN obj
    ELSE statusGetNestedValue(IF TypeOf(obj) = "object" THEN ObjGet(obj, Head(keyPath))
                              ELSE Undef,
                              Tail(keyPath))

statusIsTranslated(value, defaultValue) ==
    IF value = Undef THEN FALSE
    ELSE IF value.kind = "str" /\ IsBlank(value) THEN FALSE
    ELSE value # generateSkeleton(defaultValue)

\* Object.keys(hashes): the snapshot file is written by saveJsonFile, whose
\* sort puts the keys of the model in the order of FullKeys.
hashKeys(snapshot) == SelectSeq(FullKeys, LAMBDA fullKey : fullKey \in DOMAIN snapshot)

\* new Set(Object.keys(hashes).map((k) => k.split(':')[0]))
statusNamespaces(snapshot) ==
    uniqueNames([i \in 1..Len(hashKeys(snapshot)) |-> NsOf(hashKeys(snapshot)[i])])

\* Math.round(numerator / denominator) for a quotient that is not negative.
MathRound(numerator, denominator) == (2 * numerator + denominator) \div (2 * denominator)

\* The percentage in the steps of the twenty blocks of the progress bar.
percentageInBlocks(translated, keys) == 5 * MathRound(MathRound(translated * 100, keys), 5)

\* The counts <<translated, keys>> up to 120 keys at which the double
\* (translated / keys) * 100 falls just below a half that the exact quotient
\* reaches (23 / 40 * 100 is 57.49999999999999), so that Math.round gives
\* one less than the rounding of the exact quotient.
BelowHalf == {<<23, 40>>, <<46, 80>>, <<69, 120>>}

\* Math.round((translatedCount / totalKeys) * 100)
percentageOf(translated, keys) ==
    IF <<translated, keys>> \in BelowHalf
    THEN MathRound(translated * 100, keys) - 1
    ELSE MathRound(translated * 100, keys)

RECURSIVE statusMissing(_, _, _)
\* The keys status pushes to missingKeys for the documents of a language,
\* namespace after namespace (status.ts 38-55).
statusMissing(files, snapshot, namespaces) ==
    IF namespaces = <<>> THEN <<>>
    ELSE LET ns == Head(namespaces)
             json == loadJsonFile(files[ns])
             nsKeys == SelectSeq(hashKeys(snapshot), LAMBDA fullKey : NsOf(fullKey) = ns)
         IN SelectSeq(nsKeys, LAMBDA fullKey :
                ~statusIsTranslated(statusGetNestedValue(json, SecondOf(fullKey)),
                                    snapshot[fullKey].defaultValue))
            \o statusMissing(files, snapshot, Tail(namespaces))

\* The status command (status.ts 20-69).
Status ==
    /\ cmd' = "status"
    /\ added' = {}
    /\ changed' = {}
    /\ written' = {}
    /\ IF DOMAIN hashes = {}
       THEN UNCHANGED statusReport
       ELSE \E missing \in {[lang \in TargetLangs |->
                               statusMissing(docs[lang], hashes, statusNamespaces(hashes))]} :
               /\ missingKeys' = missing
               /\ translatedCount' = [lang \in TargetLangs |->
                                         Cardinality(DOMAIN hashes) - Len(missing[lang])]
               /\ percentage' = [lang \in TargetLangs |->
                                    percentageOf(translatedCount'[lang],
                                                 Cardinality(DOMAIN hashes))]
    /\ UNCHANGED <<config, codeKeys, disk, mergeCall, translateRun, tally, scanner, mirror>>

\* ------------------------------------------------------------------------
\* Specification of extract and status: the developer edits the source,
\* translators type translations, extract and status run.
\* ------------------------------------------------------------------------

\* Call sites of the source trees that are reported on: a text, a number, a
\* list of texts and a text that is only a placeholder.
StatusCallSites ==
    {CallSite("app:a", Str(<<"Hello">>)),
     CallSite("app:n", Num("5")),
     CallSite("app:n", List(<<Str(<<"Hello">>), Str(<<"Bye">>)>>)),
     CallSite("home:t", Str(<<"{{n}}">>))}

StatusScans ==
    {keys \in SeqsUpTo(StatusCallSites, MaxCallSites) :
        \A i, j \in 1..Len(keys) : i < j =>
            KeyRank(keys[i].fullKey) < KeyRank(keys[j].fullKey)}

InitStatus ==
    /\ cleanUnusedKeys = TRUE
    /\ removeEmptyFiles = TRUE
    /\ apiKeySet = TRUE
    /\ syncTranslationsStrictly = TRUE
    /\ fillEmptyWithSource \in BOOLEAN
    /\ codeKeys = <<>>
    /\ PipelineAtRest
    /\ ScannerAtRest
    /\ MirrorAtRest
    /\ TallyAtRest
    /\ pTarget = Undef
    /\ pSource = Undef
    /\ pResult = Undef
    /\ pPhase = "ready"

\* The developer changes the source tree.
EditScan ==
    /\ cmd # "edit"
    /\ \E keys \in StatusScans \ {codeKeys} : codeKeys' = keys
    /\ cmd' = "edit"
    /\ added' = {}
    /\ changed' = {}
    /\ written' = {}
    /\ UNCHANGED <<config, disk, mergeCall, translateRun, statusReport, tally, scanner, mirror>>

\* A translator types the translation of a text into a Turkish document.
TypeTranslation ==
    /\ \E fullKey \in DOMAIN KeyTable :
        LET file == docs["tr"][NsOf(fullKey)]
        IN /\ file \notin {NoFile, Corrupt}
           /\ getNestedValue(file, PathOf(fullKey)).kind = "str"
           /\ getNestedValue(file, PathOf(fullKey)) # HumanText
           /\ docs' = [docs EXCEPT !["tr"][NsOf(fullKey)] =
                          setNestedValue(file, PathOf(fullKey), HumanText)]
    /\ cmd' = "manual"
    /\ added' = {}
    /\ changed' = {}
    /\ written' = {}
    /\ UNCHANGED <<config, codeKeys, hashes, index, mergeCall, translateRun, statusReport, tally, scanner, mirror>>

NextStatus == EditScan \/ TypeTranslation \/ Extract \/ Status

SpecStatus == InitStatus /\ [][NextStatus]_vars

\* ------------------------------------------------------------------------
\* Specification of the percentage of status over snapshots of any size:
\* status reports, one more key gets translated, status reports again.
\* ------------------------------------------------------------------------

MaxKeys == 120

InitTally ==
    /\ cleanUnusedKeys = TRUE
    /\ removeEmptyFiles = TRUE
    /\ apiKeySet = TRUE
    /\ syncTranslationsStrictly = TRUE
    /\ fillEmptyWithSource = TRUE
    /\ codeKeys = <<>>
    /\ PipelineAtRest
    /\ ScannerAtRest
    /\ MirrorAtRest
    /\ totalKeys \in 1..MaxKeys
    /\ doneKeys \in 0..totalKeys
    /\ shown = -1
    /\ shownBefore = -1
    /\ pTarget = Undef
    /\ pSource = Undef
    /\ pResult = Undef
    /\ pPhase = "ready"

\* status computes the percentage of a language (status.ts 57).
ReportTally ==
    /\ shown = -1
    /\ shown' = percentageOf(doneKeys, totalKeys)
    /\ UNCHANGED <<config, codeKeys, disk, cmd, extractReport, written, mergeCall,
                   translateRun, statusReport, totalKeys, doneKeys, shownBefore, scanner, mirror>>

\* Exactly one untranslated key becomes translated.
TranslateOneKey ==
    /\ shown # -1
    /\ shownBefore = -1
    /\ doneKeys < totalKeys
    /\ doneKeys' = doneKeys + 1
    /\ shownBefore' = shown
    /\ shown' = -1
    /\ UNCHANGED <<config, codeKeys, disk, cmd, extractReport, written, mergeCall,
                   translateRun, statusReport, totalKeys, scanner, mirror>>

NextTally == ReportTally \/ TranslateOneKey

SpecTally == InitTally /\ [][NextTally]_vars

\* ------------------------------------------------------------------------
\* Scanner (i18n/extract.ts, parts 1 to 3).  An expression of the source is
\* a record [ekind, text, names, elems]:
\*   ekind "string"    : a string literal, text its tokens
\*   ekind "number"    : a numeric literal, text its digits
\*   ekind "true"      : the keyword true
\*   ekind "identifier": text is <<name>>
\*   ekind "array"     : elems are the element expressions
\*   ekind "object"    : names[i] is the name of property i ("" when the name
\*                       is neither an identifier nor a string literal),
\*                       elems[i] its initializer
\*   ekind "other"     : any other expression (a call, a template with
\*                       substitutions, a concatenation, ...)
\* A node of the tree is a record [nkind, ns, key, props, children]:
\*   nkind "function": a function declaration, arrow function or function
\*                     expression; ns is the namespace of its TFunction
\*                     parameter annotation ("" if none), children the
\*                     statements of its body
\*   nkind "hook"    : the statement const { t } = useTranslation(ns); ns is
\*                     "" when there is no usable argument
\*   nkind "call"    : t(key, { props }); key is the key literal split at
\*                     ':', props the defaultValue properties [suffix, init]
\*   nkind "block"   : any other node, with its children
\* ------------------------------------------------------------------------

StringLiteral(tokens) == [ekind |-> "string", text |-> tokens, names |-> <<>>, elems |-> <<>>]

NumericLiteral(digits) == [ekind |-> "number", text |-> <<digits>>, names |-> <<>>, elems |-> <<>>]

TrueKeyword == [ekind |-> "true", text |-> <<>>, names |-> <<>>, elems |-> <<>>]

Identifier(name) == [ekind |-> "identifier", text |-> <<name>>, names |-> <<>>, elems |-> <<>>]

ArrayLiteral(elements) == [ekind |-> "array", text |-> <<>>, names |-> <<>>, elems |-> elements]

ObjectLiteral(propNames, initializers) ==
    [ekind |-> "object", text |-> <<>>, names |-> propNames, elems |-> initializers]

OtherExpression == [ekind |-> "other", text |-> <<>>, names |-> <<>>, elems |-> <<>>]

FunctionNode(paramNs, body) ==
    [nkind |-> "function", ns |-> paramNs, key |-> <<>>, props |-> <<>>, children |-> body,
     line |-> 0]

HookNode(namespace) ==
    [nkind |-> "hook", ns |-> namespace, key |-> <<>>, props |-> <<>>, children |-> <<>>,
     line |-> 0]

\* A call t(rawKey, options) that starts on the given line of its file.
CallAt(line, rawKey, options) ==
    [nkind |-> "call", ns |-> "", key |-> rawKey, props |-> options, children |-> <<>>,
     line |-> line]

CallNode(rawKey, options) == CallAt(1, rawKey, options)

BlockNode(body) ==
    [nkind |-> "block", ns |-> "", key |-> <<>>, props |-> <<>>, children |-> body,
     line |-> 0]

\* A source file: its path, its top-level constants and its other statements.
SourceFile(path, constants, statements) ==
    [path |-> path, constants |-> constants, statements |-> statements]

\* A property defaultValue<suffix>: init of the options of a t() call.
DefaultValueProp(propSuffix, initializer) == [suffix |-> propSuffix, init |-> initializer]

defaultNamespace == "translation"

RECURSIVE getNodeValue(_, _)
RECURSIVE objectOf(_, _, _, _)

\* The loop of getNodeValue over the properties of an object literal.
objectOf(propNames, initializers, scope, obj) ==
    IF propNames = <<>> THEN obj
    ELSE LET val == getNodeValue(Head(initializers), scope)
         IN objectOf(Tail(propNames), Tail(initializers), scope,
                     IF Head(propNames) # "" /\ val # Undef
                     THEN ESet(obj, Head(propNames), val)
                     ELSE obj)

getNodeValue(node, scope) ==
    CASE node.ekind = "string" -> Str(node.text)
      [] node.ekind = "number" -> Num(node.text[1])
      [] node.ekind = "true" -> Bool("true")
      [] node.ekind = "identifier" ->
            IF node.text[1] \in DOMAIN scope THEN scope[node.text[1]] ELSE Undef
      [] node.ekind = "array" ->
            List(SelectSeq([i \in 1..Len(node.elems) |-> getNodeValue(node.elems[i], scope)],
                           LAMBDA val : val # Undef))
      [] node.ekind = "object" -> Map(objectOf(node.names, node.elems, scope, <<>>))
      [] OTHER -> Undef

\* The empty scope {} and scope[name] = val.
NoScope == [name \in {} |-> Undef]

ScopeSet(scope, name, val) ==
    [n \in DOMAIN scope \cup {name} |-> IF n = name THEN val ELSE scope[n]]

RECURSIVE extractFileConstants(_, _)
\* The top-level declarations const name = init, each evaluated in the
\* empty scope.
extractFileConstants(constants, scope) ==
    IF constants = <<>> THEN scope
    ELSE LET val == getNodeValue(Head(constants).init, NoScope)
         IN extractFileConstants(Tail(constants),
                                 IF val # Undef THEN ScopeSet(scope, Head(constants).name, val)
                                 ELSE scope)

\* getNamespaceFromParams: "" stands for undefined.
getNamespaceFromParams(node) == node.ns

RECURSIVE getNamespaceFromHook(_)
\* The first statement of the body that calls useTranslation with a usable
\* argument.
getNamespaceFromHook(body) ==
    IF body = <<>> THEN ""
    ELSE IF Head(body).nkind = "hook" /\ Head(body).ns # "" THEN Head(body).ns
    ELSE getNamespaceFromHook(Tail(body))

\* `${keyPath}${suffix}`: the suffix is joined to the last part of the key
\* path (keyPath is the rest of the key literal after the first ':', kept as
\* its parts).
finalKeyPathOf(keyPath, suffix) ==
    [i \in 1..Len(keyPath) |-> IF i = Len(keyPath) THEN keyPath[i] \o suffix ELSE keyPath[i]]

\* An entry of the key map; the full key `${namespace}:${finalKeyPath}` is
\* kept as its parts, the location `${filePath}:${line}` as well.
ExtractedKey(namespace, keyPath, suffix, defaultValue, filePath, line) ==
    [fullKey |-> [namespace |-> namespace, keyPath |-> finalKeyPathOf(keyPath, suffix)],
     defaultValue |-> defaultValue,
     location |-> [filePath |-> filePath, line |-> line]]

\* A key map that keeps the record of the call site visited first.
KeysSetFirst(keys, extracted) ==
    IF \E i \in 1..Len(keys) : keys[i].fullKey = extracted.fullKey
    THEN keys
    ELSE Append(keys, extracted)

\* keys.set(fullKey, extracted): a Map keeps the place of the first insertion.
KeysSet(keys, extracted) ==
    IF \E i \in 1..Len(keys) : keys[i].fullKey = extracted.fullKey
    THEN [i \in 1..Len(keys) |->
            IF keys[i].fullKey = extracted.fullKey THEN extracted ELSE keys[i]]
    ELSE Append(keys, extracted)

RECURSIVE processOptions(_, _, _, _, _, _)
\* The loop of processTranslationCall over the defaultValue properties.
processOptions(node, options, filePath, keys, scope, activeNamespace) ==
    IF options = <<>> THEN keys
    ELSE LET rawKey == node.key
             defaultValue == getNodeValue(Head(options).init, scope)
             namespace == IF Len(rawKey) >= 2 THEN Head(rawKey) ELSE activeNamespace
             keyPath == IF Len(rawKey) >= 2 THEN Tail(rawKey) ELSE rawKey
         IN processOptions(node, Tail(options), filePath,
                           IF defaultValue # Undef
                           THEN KeysSet(keys, ExtractedKey(namespace, keyPath,
                                                           Head(options).suffix, defaultValue,
                                                           filePath, node.line))
                           ELSE keys,
                           scope, activeNamespace)

processTranslationCall(node, filePath, keys, scope, activeNamespace) ==
    processOptions(node, node.props, filePath, keys, scope, activeNamespace)

\* The namespace a function node hands to its children, with the hook
\* looked at before the parameters.
nextNamespaceHookFirst(node, activeNamespace) ==
    IF node.nkind # "function" THEN activeNamespace
    ELSE IF getNamespaceFromHook(node.children) # "" THEN getNamespaceFromHook(node.children)
    ELSE IF getNamespaceFromParams(node) # "" THEN getNamespaceFromParams(node)
    ELSE activeNamespace

\* The namespace visitNode hands to the children of a node (extract.ts 341-354).
nextNamespaceOf(node, activeNamespace) ==
    IF node.nkind # "function" THEN activeNamespace
    ELSE IF getNamespaceFromParams(node) # "" THEN getNamespaceFromParams(node)
    ELSE IF getNamespaceFromHook(node.children) # "" THEN getNamespaceFromHook(node.children)
    ELSE activeNamespace

RECURSIVE visitNode(_, _, _, _, _)
RECURSIVE visitChildren(_, _, _, _, _)

\* ts.forEachChild(node, (child) => visitNode(child, ..., nextNamespace))
visitChildren(children, filePath, keys, scope, nextNamespace) ==
    IF children = <<>> THEN keys
    ELSE visitChildren(Tail(children), filePath,
                       visitNode(Head(children), filePath, keys, scope, nextNamespace),
                       scope, nextNamespace)

visitNode(node, filePath, keys, scope, activeNamespace) ==
    visitChildren(node.children, filePath,
                  IF node.nkind = "call"
                  THEN processTranslationCall(node, filePath, keys, scope,
                                              nextNamespaceOf(node, activeNamespace))
                  ELSE keys,
                  scope, nextNamespaceOf(node, activeNamespace))

RECURSIVE scanFiles(_, _)
\* The loop of scanAllFiles over the files: one key map for all of them, a
\* scope of constants for each.
scanFiles(files, keys) ==
    IF files = <<>> THEN keys
    ELSE scanFiles(Tail(files),
                   visitChildren(Head(files).statements, Head(files).path, keys,
                                 extractFileConstants(Head(files).constants, NoScope),
                                 defaultNamespace))

scanAllFiles(files) == scanFiles(files, <<>>)

\* ------------------------------------------------------------------------
\* Specification of extract, status and the collection of translate, over
\* keys with one and with two ':'.
\* ------------------------------------------------------------------------

CollectCallSites ==
    {CallSite("app:a", Str(<<"Hello">>)),
     CallSite("home:t", Str(<<"Bye">>)),
     CallSite("home:t:x", Str(<<"Hello">>))}

CollectScans ==
    {keys \in SeqsUpTo(CollectCallSites, MaxCallSites) :
        \A i, j \in 1..Len(keys) : i < j =>
            KeyRank(keys[i].fullKey) < KeyRank(keys[j].fullKey)}

InitCollect == InitStatus

\* The developer changes the source tree.
EditCollectScan ==
    /\ cmd # "edit"
    /\ \E keys \in CollectScans \ {codeKeys} : codeKeys' = keys
    /\ cmd' = "edit"
    /\ added' = {}
    /\ changed' = {}
    /\ written' = {}
    /\ UNCHANGED <<config, disk, mergeCall, translateRun, statusReport, tally, scanner, mirror>>

NextCollect == EditCollectScan \/ TypeTranslation \/ Extract \/ Status

SpecCollect == InitCollect /\ [][NextCollect]_vars

\* ------------------------------------------------------------------------
\* Specification of extract over default values of every kind at one key
\* ------------------------------------------------------------------------

\* The default values the key app:n takes from one version of the source
\* tree to the next: texts, a number and a boolean (also ones whose texts
\* are alike), lists and mappings.
DetectCallSites ==
    {CallSite("app:a", Str(<<"Hello">>)),
     CallSite("app:n", Str(<<"Hello">>)),
     CallSite("app:n", Str(<<"5">>)),
     CallSite("app:n", Num("5")),
     CallSite("app:n", Num("4")),
     CallSite("app:n", Bool("true")),
     CallSite("app:n", Bool("false")),
     CallSite("app:n", List(<<Str(<<"Hello">>)>>)),
     CallSite("app:n", List(<<Str(<<"Bye">>)>>)),
     CallSite("app:n", Map(<<Entry("a", Str(<<"Hello">>))>>)),
     CallSite("app:n", Map(<<Entry("a", Num("5"))>>))}

DetectScans ==
    {keys \in SeqsUpTo(DetectCallSites, MaxCallSites) :
        \A i, j \in 1..Len(keys) : i < j =>
            KeyRank(keys[i].fullKey) < KeyRank(keys[j].fullKey)}

InitDetect == InitStatus

\* The developer changes the source tree.
EditDetectScan ==
    /\ cmd # "edit"
    /\ \E keys \in DetectScans \ {codeKeys} : codeKeys' = keys
    /\ cmd' = "edit"
    /\ added' = {}
    /\ changed' = {}
    /\ written' = {}
    /\ UNCHANGED <<config, disk, mergeCall, translateRun, statusReport, tally, scanner, mirror>>

NextDetect == EditDetectScan \/ Extract

SpecDetect == InitDetect /\ [][NextDetect]_vars

\* ------------------------------------------------------------------------
\* Specification of one call of applyStrings on an arbitrary value and as
\* many strings as the value has string leaves
\* ------------------------------------------------------------------------

\* The strings a response may hold: a translation, the empty string, the
\* source text.
ResponseStrings == {<<"Elveda">>, <<>>, <<"Hello">>}

InitMirror ==
    /\ cleanUnusedKeys = TRUE
    /\ removeEmptyFiles = TRUE
    /\ apiKeySet = TRUE
    /\ syncTranslationsStrictly = TRUE
    /\ fillEmptyWithSource = TRUE
    /\ codeKeys = <<>>
    /\ PipelineAtRest
    /\ ScannerAtRest
    /\ TallyAtRest
    /\ mValue \in Values
    /\ mStrings \in [1..Len(flattenStrings(mValue)) -> ResponseStrings]
                       \cup {flattenStrings(mValue)}
    /\ mResult = Undef
    /\ mCursor = -1
    /\ pTarget = Undef
    /\ pSource = Undef
    /\ pResult = Undef
    /\ pPhase = "ready"

\* applyStrings(value, strings, { i: 0 })
CallApplyStrings ==
    /\ mCursor = -1
    /\ \E r \in {applyStrings(mValue, mStrings, 0)} :
          /\ mResult' = r.value
          /\ mCursor' = r.i
    /\ UNCHANGED <<config, codeKeys, disk, cmd, extractReport, written, mergeCall,
                   translateRun, statusReport, tally, scanner, mValue, mStrings>>

NextMirror == CallApplyStrings

SpecMirror == InitMirror /\ [][NextMirror]_vars

\* ------------------------------------------------------------------------
\* Specification of one scan of a source file
\* ------------------------------------------------------------------------

Hello == StringLiteral(<<"Hello">>)

\* The options { defaultValue: init }.
DefaultOnly(initializer) == <<DefaultValueProp("", initializer)>>

\* What stands in a function body: a call without namespace prefix, a call
\* with one, a call inside another statement.
CallStatements ==
    {CallNode(<<"t">>, DefaultOnly(Hello)),
     CallNode(<<"nav", "t">>, DefaultOnly(Hello)),
     BlockNode(<<CallNode(<<"t">>, DefaultOnly(Hello))>>)}

\* Functions with and without a TFunction parameter and a useTranslation
\* statement (with and without usable argument) in front of the body.
FunctionsOver(paramNs, hookNs, bodies) ==
    {FunctionNode(p, h \o <<body>>) :
        p \in {"", paramNs},
        h \in {<<>>, <<HookNode(hookNs)>>, <<HookNode("")>>},
        body \in bodies}

InnerFunctions == FunctionsOver("menu", "cart", CallStatements)

OuterFunctions == FunctionsOver("app", "home", InnerFunctions \cup CallStatements)

\* Files made of one function, alone or followed by a call outside of it.
NamespaceTrees ==
    {<<SourceFile("a.tsx", <<>>, <<f>> \o after)>> :
        f \in OuterFunctions,
        after \in {<<>>, <<CallNode(<<"u">>, DefaultOnly(Hello))>>}}

\* Default-value expressions: literals, a constant of the file, an unknown
\* identifier, an unsupported expression, and lists and mappings that hold
\* unsupported expressions at depth one and two.
DefaultExpressions ==
    {Hello,
     NumericLiteral("5"),
     TrueKeyword,
     Identifier("title"),
     Identifier("missing"),
     OtherExpression,
     ArrayLiteral(<<Hello>>),
     ArrayLiteral(<<Hello, OtherExpression>>),
     ArrayLiteral(<<Identifier("missing"), Hello>>),
     ObjectLiteral(<<"a", "b">>, <<Hello, OtherExpression>>),
     ArrayLiteral(<<ObjectLiteral(<<"a">>, <<OtherExpression>>)>>)}

\* Files with the constant title, one call with one or two defaultValue
\* properties, and a call after it.
DefaultValueTrees ==
    {<<SourceFile("a.tsx", <<[name |-> "title", init |-> Hello]>>,
                  <<CallNode(<<"t">>, <<DefaultValueProp("", first)>> \o more),
                    CallNode(<<"app", "n">>, DefaultOnly(Hello))>>)>> :
        first \in DefaultExpressions,
        more \in {<<>>} \cup {<<DefaultValueProp("_other", e)>> : e \in DefaultExpressions}}

Farewell == StringLiteral(<<"Bye">>)

\* Calls that share an identity: the same key with other default values,
\* with the default namespace as prefix, with an unusable default value, and
\* the key t_other as a literal and as the property defaultValue_other of t.
SharedCalls ==
    {CallAt(1, <<"t">>, DefaultOnly(Hello)),
     CallAt(2, <<"t">>, DefaultOnly(Farewell)),
     CallAt(3, <<"translation", "t">>, DefaultOnly(NumericLiteral("5"))),
     CallAt(4, <<"t">>, <<DefaultValueProp("", Hello), DefaultValueProp("_other", Farewell)>>),
     CallAt(5, <<"t_other">>, DefaultOnly(Hello)),
     CallAt(6, <<"t">>, DefaultOnly(OtherExpression))}

\* Two files with up to two of these calls each.
SharedTrees ==
    {<<SourceFile("a.tsx", <<>>, first), SourceFile("b.tsx", <<>>, second)>> :
        first \in SeqsUpTo(SharedCalls, 2),
        second \in SeqsUpTo(SharedCalls, 2)}

ScanTrees == NamespaceTrees \cup DefaultValueTrees \cup SharedTrees

InitScan ==
    /\ cleanUnusedKeys = TRUE
    /\ removeEmptyFiles = TRUE
    /\ apiKeySet = TRUE
    /\ syncTranslationsStrictly = TRUE
    /\ fillEmptyWithSource = TRUE
    /\ codeKeys = <<>>
    /\ PipelineAtRest
    /\ TallyAtRest
    /\ MirrorAtRest
    /\ sourceTree \in ScanTrees
    /\ scanKeys = <<>>
    /\ pTarget = Undef
    /\ pSource = Undef
    /\ pResult = Undef
    /\ pPhase = "ready"

\* scanAllFiles() runs over the files.
Scan ==
    /\ cmd = "none"
    /\ scanKeys' = scanAllFiles(sourceTree)
    /\ cmd' = "scan"
    /\ UNCHANGED <<config, codeKeys, disk, extractReport, written, mergeCall, translateRun,
                   statusReport, tally, sourceTree, mirror>>

NextScan == Scan

SpecScan == InitScan /\ [][NextScan]_vars

\* ------------------------------------------------------------------------
\* Properties of extract
\* ------------------------------------------------------------------------

\* The value a document file holds at a key path (absent when there is no file).
ValueAt(files, lang, fullKey) ==
    getNestedValue(loadJsonFile(files[lang][NsOf(fullKey)]), PathOf(fullKey))

ScannedKeys == {codeKeys[i].fullKey : i \in 1..Len(codeKeys)}

DefaultOf(fullKey) ==
    codeKeys[CHOOSE i \in 1..Len(codeKeys) : codeKeys[i].fullKey = fullKey].defaultValue

\* No scanned key path is a dotted prefix of another one of its namespace.
NoConflict == \A k1, k2 \in ScannedKeys : ~Conflict(k1, k2)

\* C1 (as stated): an extract run that directly follows an extract run, with
\* no source change in between, saves no language document and classifies no
\* key as added or changed.  Stated for the scans the claim certainly means:
\* those in which no key path is a dotted prefix of another.
C1_ExtractIdempotent ==
    (cmd = "extract2" /\ NoConflict) => (written = {} /\ added = {} /\ changed = {})

C7_SourceWriteRule ==
    [][(ExtractRan' /\ NoConflict) =>
        \A fullKey \in ScannedKeys :
            ValueAt(docs', defaultLanguage, fullKey) =
                IF \/ fullKey \in added'
                   \/ fullKey \in changed'
                   \/ ValueAt(docs, defaultLanguage, fullKey) = Undef
                THEN sortDeep(DefaultOf(fullKey))
                ELSE ValueAt(docs, defaultLanguage, fullKey)]_vars

\* ------------------------------------------------------------------------
\* Properties of translate
\* ------------------------------------------------------------------------

\* A step in which a translate run returns: at once when there is nothing to
\* send, or after the requests have settled.
RunStarts == runs' = runs + 1

RunFinishes == tPhase = "pending" /\ tPhase' = "returned"

RunEnds == tPhase' = "returned" /\ (RunStarts \/ RunFinishes)

\* The target languages of the run a step starts or finishes.
RunTargets ==
    IF DOMAIN hashes = {} THEN {}
    ELSE {targetLanguages(targetLangArg')[i] : i \in 1..Len(targetLanguages(targetLangArg'))}

\* The requests of the run that overlap the positions [offset, offset + count)
\* of the flat string array of lang.
Overlapping(lang, offset, count) ==
    {i \in 1..Len(payloads') :
        /\ payloads'[i].language = lang
        /\ payloads'[i].batchId * BATCH_SIZE < offset + count
        /\ (payloads'[i].batchId + 1) * BATCH_SIZE > offset}

\* The value an applied item gets: its default with every string replaced by
\* the string the service returned for its position.
AnswerFor(lang, items, idx) ==
    LET off == offsetsOf(items)
        responses == SelectSeq(results', LAMBDA r : r.status = "fulfilled" /\ r.language = lang)
        slots == translatedSlots(responses, off.total)
        count == Len(flattenStrings(items[idx].defaultValue))
    IN sortDeep(applyStrings(items[idx].defaultValue,
                             [j \in 1..count |-> slots[off.offsets[idx] + j].s], 0).value)

\* C2 (as stated): when a translate run ends, every untranslated item of
\* every target language has been written if and only if every request that
\* overlaps its range of the flat string array succeeded, and an item that
\* was not written has the value it had.  Stated for runs that have the
\* credential.
C2_WrittenIffBatchesSucceeded ==
    [][(RunEnds /\ apiKeySet) =>
        \A lang \in RunTargets :
            LET items == collectUntranslated(docs[lang])
                off == offsetsOf(items)
            IN \A idx \in 1..Len(items) :
                LET fullKey == ItemKey(items[idx])
                    count == Len(flattenStrings(items[idx].defaultValue))
                    isWritten == <<lang, fullKey>> \in applied'
                IN /\ isWritten <=>
                        \A i \in Overlapping(lang, off.offsets[idx], count) :
                            results'[i].status = "fulfilled"
                   /\ isWritten => ValueAt(docs', lang, fullKey) = AnswerFor(lang, items, idx)
                   /\ ~isWritten => ValueAt(docs', lang, fullKey) = ValueAt(docs, lang, fullKey)]_vars

\* C3: a run starts every request of every target language before any
\* outcome is known; a request that settles leaves every other request as it
\* was, whatever its own outcome; the run never throws; when it returns, the
\* failure count is the number of rejected requests and every item whose
\* strings all lie in fulfilled requests holds the answers.
C3_SettleAllDispatch ==
    [][/\ tPhase' # "failed"
       /\ (RunStarts /\ tPhase' = "pending" /\ apiKeySet) =>
            /\ fetched' = Len(payloads')
            /\ \A i \in 1..Len(payloads') : results'[i].status = "pending"
            /\ \A lang \in RunTargets :
                  LET total == offsetsOf(collectUntranslated(docs[lang])).total
                  IN \A pos \in 0..(total - 1) : Overlapping(lang, pos, 1) # {}
       /\ (tPhase = "pending" /\ tPhase' = "pending") =>
            \E i \in 1..Len(results) :
                /\ results[i].status = "pending" /\ results'[i].status # "pending"
                /\ \A j \in 1..Len(results) \ {i} : results'[j] = results[j]
       /\ RunFinishes =>
            /\ \A i \in 1..Len(results) : results[i].status # "pending"
            /\ failedCount' = Cardinality({i \in 1..Len(results) :
                                              results[i].status = "rejected"})
            /\ \A lang \in RunTargets :
                  LET items == collectUntranslated(docs[lang])
                      off == offsetsOf(items)
                  IN \A idx \in 1..Len(items) :
                      LET count == Len(flattenStrings(items[idx].defaultValue))
                          batches == Overlapping(lang, off.offsets[idx], count)
                      IN (batches # {} /\ \A i \in batches : results[i].status = "fulfilled")
                            => /\ <<lang, ItemKey(items[idx])>> \in applied'
                               /\ ValueAt(docs', lang, ItemKey(items[idx]))
                                     = AnswerFor(lang, items, idx)]_vars

\* A run has returned in which, for one language, one request was fulfilled
\* and another rejected, an item was applied and an item was skipped.
C3_Witness ==
    /\ tPhase = "returned" /\ failedCount > 0
    /\ \E i, j \in 1..Len(results) :
          /\ results[i].language = results[j].language
          /\ results[i].status = "fulfilled" /\ results[j].status = "rejected"
          /\ \E k1, k2 \in DOMAIN KeyTable :
                /\ <<results[i].language, k1>> \in applied
                /\ <<results[i].language, k2>> \in skipped

\* C4 (as stated): the items a run left unapplied are collected again by
\* the next run, the items it applied are not, translate persists nothing but
\* documents, and when every request of the next run succeeds the items left
\* unapplied before are applied.
C4_RetryRecovers ==
    [][/\ (RunStarts /\ cmd = "translate") =>
            \A lang \in RunTargets :
                LET items == collectUntranslated(docs[lang])
                    now == {ItemKey(items[i]) : i \in 1..Len(items)}
                IN \A fullKey \in DOMAIN KeyTable :
                      /\ <<lang, fullKey>> \in skipped => fullKey \in now
                      /\ <<lang, fullKey>> \in applied => fullKey \notin now
       /\ RunFinishes => (hashes' = hashes /\ index' = index)
       /\ (RunFinishes /\ runs >= 2 /\ failedCount' = 0) =>
            \A lang \in RunTargets : \A fullKey \in DOMAIN KeyTable :
                <<lang, fullKey>> \in skipped => <<lang, fullKey>> \in applied']_vars

\* C5 (as stated): a translate run that finds an untranslated item while the
\* credential is missing fails as a whole, has sent nothing and writes no
\* document.  Stated for runs that find an untranslated string.
C5_MissingCredentialFatal ==
    [][(/\ RunStarts
        /\ ~apiKeySet
        /\ \E lang \in RunTargets :
              allStringsOf(collectUntranslated(docs[lang])) # <<>>) =>
            (tPhase' = "failed" /\ fetched' = 0 /\ docs' = docs)]_vars

\* ------------------------------------------------------------------------
\* Properties of mergeDeep
\* ------------------------------------------------------------------------

KeySet(v) == {ObjKeys(v)[i] : i \in 1..Len(ObjKeys(v))}

ElemOrUndef(v, i) == IF i <= Len(v.items) THEN v.items[i] ELSE Undef

\* C8: when existing and incoming are both mappings, the merged key set is
\* incoming's key set under strict sync and the union of both key sets under
\* soft sync; every key of incoming holds mergeDeep(existing[key],
\* incoming[key]); under soft sync a key only in existing keeps its value.
C8_MapMergePolicy ==
    (pPhase = "returned" /\ pTarget.kind = "map" /\ pSource.kind = "map") =>
        /\ pResult.kind = "map"
        /\ Len(pResult.items) = Cardinality(KeySet(pResult))
        /\ KeySet(pResult) = IF syncTranslationsStrictly
                              THEN KeySet(pSource)
                              ELSE KeySet(pTarget) \cup KeySet(pSource)
        /\ \A key \in KeySet(pSource) :
              ObjGet(pResult, key) = mergeDeep(ObjGet(pTarget, key), ObjGet(pSource, key))
        /\ ~syncTranslationsStrictly =>
              \A key \in KeySet(pTarget) \ KeySet(pSource) :
                  ObjGet(pResult, key) = ObjGet(pTarget, key)

\* A soft merge of two mappings where one key is only in existing, one only
\* in incoming and one in both has returned.
C8_Witness ==
    /\ pPhase = "returned" /\ pTarget.kind = "map" /\ pSource.kind = "map"
    /\ ~syncTranslationsStrictly
    /\ KeySet(pTarget) \ KeySet(pSource) # {}
    /\ KeySet(pTarget) \cap KeySet(pSource) # {}
    /\ \E key \in KeySet(pTarget) \cap KeySet(pSource) :
          ObjGet(pTarget, key) # ObjGet(pSource, key)

FiveKinds == {"str", "num", "bool", "list", "map"}

\* C9 (as stated): whenever existing and incoming are of different kinds
\* among string, number, boolean, list and mapping, or existing is absent,
\* mergeDeep returns incoming unchanged.
C9_KindMismatchReturnsIncoming ==
    (/\ pPhase = "returned"
     /\ \/ pTarget = Undef
        \/ (pTarget.kind \in FiveKinds /\ pSource.kind \in FiveKinds
            /\ pTarget.kind # pSource.kind)) =>
        pResult = pSource

\* C10: when existing and incoming are both lists the result is a list of
\* incoming's length whose i-th element is mergeDeep(existing[i], incoming[i])
\* (incoming[i] when existing has no i-th element).
C10_ArrayLengthFromIncoming ==
    (pPhase = "returned" /\ pTarget.kind = "list" /\ pSource.kind = "list") =>
        /\ pResult.kind = "list"
        /\ Len(pResult.items) = Len(pSource.items)
        /\ \A i \in 1..Len(pSource.items) :
              pResult.items[i] = mergeDeep(ElemOrUndef(pTarget, i), pSource.items[i])
        /\ \A i \in 1..Len(pSource.items) :
              i > Len(pTarget.items) => pResult.items[i] = pSource.items[i]

\* A merge of an existing list that is longer than the (non-empty) incoming
\* list, and differs from it in the first element, has returned.
C10_Witness ==
    /\ pPhase = "returned" /\ pTarget.kind = "list" /\ pSource.kind = "list"
    /\ Len(pTarget.items) > Len(pSource.items)
    /\ Len(pSource.items) >= 1
    /\ pTarget.items[1] # pSource.items[1]

\* ------------------------------------------------------------------------
\* Properties of clean
\* ------------------------------------------------------------------------

RECURSIVE DocPaths(_)
\* The key paths of a document: every path that descends through mappings.
DocPaths(value) ==
    IF value.kind # "map" THEN {}
    ELSE UNION {{<<value.items[i].k>>}
                \cup {<<value.items[i].k>> \o p : p \in DocPaths(value.items[i].v)} :
                i \in 1..Len(value.items)}

\* Whether the traversal of a document of the namespace reaches the path,
\* given the set of known keys: no proper prefix of it is a known key.
ReachedIn(known, namespace, keyPath) ==
    \A n \in 1..(Len(keyPath) - 1) :
        fullKeyOf(namespace, SubSeq(keyPath, 1, n)) \notin known

\* The leaves of a document: reached paths that are a known key or hold
\* something else than a mapping.
LeavesIn(known, file, namespace) ==
    {p \in DocPaths(file) :
        /\ ReachedIn(known, namespace, p)
        /\ \/ fullKeyOf(namespace, p) \in known
           \/ getNestedValue(file, p).kind # "map"}

Reached(namespace, keyPath) == ReachedIn(validKeys(codeKeys), namespace, keyPath)

LeavesOf(file, namespace) == LeavesIn(validKeys(codeKeys), file, namespace)

\* The reached paths of a document that hold an empty mapping.
EmptyMappings(file, namespace) ==
    {p \in DocPaths(file) :
        /\ Reached(namespace, p)
        /\ fullKeyOf(namespace, p) \notin validKeys(codeKeys)
        /\ getNestedValue(file, p) = Map(<<>>)}

CleanRan == cmd = "clean" /\ cleanUnusedKeys

\* C11: after a clean run with cleaning enabled, every leaf of every document
\* on disk is a key of the fresh scan, and no emptied mapping is left inside
\* a document.
C11_CleanerCompleteness ==
    CleanRan =>
        \A lang \in LangSet, ns \in AllNamespaces :
            docs[lang][ns] # NoFile =>
                /\ \A p \in LeavesOf(docs[lang][ns], ns) :
                       fullKeyOf(ns, p) \in validKeys(codeKeys)
                /\ EmptyMappings(docs[lang][ns], ns) = {}

\* A clean run removed the nested key a.b with its parent and kept the
\* sibling n in the same document.
C11_Witness ==
    /\ CleanRan
    /\ <<"tr", "app">> \in written
    /\ \A lang \in LangSet : ObjKeys(docs[lang]["app"]) = <<"n">>

\* The keys of the snapshot as the cleaner writes them.
SnapshotKeys == {fullKeyOf(NsOf(k), PathOf(k)) : k \in DOMAIN hashes}

\* The documents hold the keys of the snapshot and nothing else, as after an
\* extract into an empty messages directory.
DocsHoldSnapshot ==
    \A lang \in LangSet, ns \in AllNamespaces :
        LeavesIn(SnapshotKeys, loadJsonFile(docs[lang][ns]), ns)
            = {PathOf(k) : k \in {k2 \in DOMAIN hashes : NsOf(k2) = ns}}

\* The key was extracted and its call site, and nothing else, was removed
\* from the source; clean is enabled.  Key paths are prefix-free.
CallSiteRemoved(fullKey) ==
    /\ cleanUnusedKeys
    /\ cmd = "edit"
    /\ fullKey \in DOMAIN hashes
    /\ ScannedKeys = DOMAIN hashes \ {fullKey}
    /\ \A k1, k2 \in DOMAIN hashes : ~Conflict(k1, k2)
    /\ DocsHoldSnapshot

\* What the clean run that follows does to the documents of a language:
\* the leaf of the key is gone, its parent too if the leaf was its only key,
\* every other key keeps its value, other documents are untouched, and a
\* document whose last key it was is deleted or left as {}.
LeafRemoved(lang, fullKey) ==
    LET ns == NsOf(fullKey)
        keyPath == PathOf(fullKey)
        parent == SubSeq(keyPath, 1, Len(keyPath) - 1)
        old == docs[lang][ns]
        new == docs'[lang][ns]
        others == {k \in DOMAIN hashes \ {fullKey} : NsOf(k) = ns}
    IN /\ getNestedValue(loadJsonFile(new), keyPath) = Undef
       /\ (Len(keyPath) > 1 /\ ObjKeys(getNestedValue(old, parent)) = <<keyPath[Len(keyPath)]>>)
             => getNestedValue(loadJsonFile(new), parent) = Undef
       /\ \A k \in others : getNestedValue(new, PathOf(k)) = getNestedValue(old, PathOf(k))
       /\ \A ns2 \in AllNamespaces \ {ns} : docs'[lang][ns2] = docs[lang][ns2]
       /\ others # {} => new # NoFile /\ new = sortDeep(new)
       /\ others = {} => new = (IF removeEmptyFiles THEN NoFile ELSE Map(<<>>))

Listed(lang, namespace) == \E i \in 1..Len(index'[lang]) : index'[lang][i] = namespace

LastKey(fullKey) == \A k \in DOMAIN hashes : NsOf(k) = NsOf(fullKey) => k = fullKey

NsRank(namespace) == CHOOSE i \in 1..Len(NsSorted) : NsSorted[i] = namespace

CommandRan == cmd \in {"extract", "extract2", "clean"}

\* C13: after an extract run and after a clean run, the index of every
\* language lists exactly the namespaces with a document on disk, each once,
\* in sorted order.
C13_IndexMatchesDocuments ==
    CommandRan =>
        \A lang \in LangSet :
            /\ {index[lang][i] : i \in 1..Len(index[lang])}
                  = {ns \in AllNamespaces : docs[lang][ns] # NoFile}
            /\ \A i, j \in 1..Len(index[lang]) :
                  i < j => NsRank(index[lang][i]) < NsRank(index[lang][j])

\* An extract run found the files of both namespaces on disk and both
\* namespaces in the scan, and listed each once.
C13_Witness ==
    /\ cmd = "extract2"
    /\ {NsOf(k) : k \in ScannedKeys} = {"app", "home"}
    /\ \A lang \in LangSet : index[lang] = <<"app", "home">>

\* ------------------------------------------------------------------------
\* Properties of status
\* ------------------------------------------------------------------------

\* The keys the last status run listed as missing for a language.
MissingSet(lang) == {missingKeys[lang][i] : i \in 1..Len(missingKeys[lang])}

\* C14 (as stated): with fillEmptyWithSource, an extract run leaves the source
\* default text at a newly added key of a non-source document that had
\* nothing there, and a status run that follows the extract lists the key,
\* still holding that text, as missing for the language.
C14_FilledKeysReportedMissing ==
    [][\A fullKey \in DOMAIN KeyTable, lang \in TargetLangs :
          /\ (/\ fillEmptyWithSource
              /\ cmd' \in {"extract", "extract2"}
              /\ fullKey \in added'
              /\ ValueAt(docs, lang, fullKey) = Undef)
                => ValueAt(docs', lang, fullKey) = sortDeep(DefaultOf(fullKey))
          /\ (/\ fillEmptyWithSource
              /\ ExtractRan
              /\ fullKey \in added
              /\ ValueAt(docs, lang, fullKey) = sortDeep(DefaultOf(fullKey))
              /\ cmd' = "status")
                => fullKey \in MissingSet(lang)']_vars

ReportedTwice == shown # -1 /\ shownBefore # -1

\* C15 (as stated): when exactly one untranslated key becomes translated, the
\* percentage status reports is strictly greater than before, whatever the
\* number of keys.
C15_PercentageStrictlyGrows == ReportedTwice => shown > shownBefore

\* C15 (amended): the percentage is never smaller than before, and it is
\* strictly greater when the snapshot has at most 100 keys.
C15_PercentageGrows ==
    ReportedTwice =>
        /\ shown >= shownBefore
        /\ totalKeys <= 100 => shown > shownBefore

\* Of three keys the second one got translated: 33% before, 67% after.
C15_Witness ==
    /\ totalKeys = 3
    /\ doneKeys = 2
    /\ shownBefore = 33
    /\ shown = 67

\* ------------------------------------------------------------------------
\* Properties of generateSkeleton
\* ------------------------------------------------------------------------

\* C16 (as stated): the skeleton of a string is its placeholders and tags in
\* the order in which they occur in the string, joined by single spaces; the
\* skeleton of a list has the length of the list, the skeleton of a mapping
\* the key set of the mapping.
C16_SkeletonKeepsOrder ==
    pPhase = "returned" =>
        /\ pSource.kind = "str" =>
              pResult = Str(JoinSpace(SelectSeq(pSource.text,
                                                LAMBDA t : t \in Placeholders \cup Tags)))
        /\ pSource.kind = "list" =>
              pResult.kind = "list" /\ Len(pResult.items) = Len(pSource.items)
        /\ pSource.kind = "map" =>
              pResult.kind = "map" /\ KeySet(pResult) = KeySet(pSource)

\* ------------------------------------------------------------------------
\* Properties of the document store
\* ------------------------------------------------------------------------

Unreadable(file) == file \in {NoFile, Corrupt}

RECURSIVE SitesOf(_, _)
\* The t() calls below the nodes, each with the functions that enclose it,
\* outermost first.
SitesOf(nodes, chain) ==
    UNION {(IF nodes[i].nkind = "call" THEN {[call |-> nodes[i], chain |-> chain]} ELSE {})
           \cup SitesOf(nodes[i].children,
                        IF nodes[i].nkind = "function" THEN Append(chain, nodes[i]) ELSE chain) :
           i \in 1..Len(nodes)}

\* The argument of the first useTranslation statement of a function that has
\* a usable one, "" if there is none.
HookArgument(function) ==
    LET hooks == SelectSeq(function.children, LAMBDA n : n.nkind = "hook" /\ n.ns # "")
    IN IF hooks = <<>> THEN "" ELSE hooks[1].ns

RECURSIVE NamespaceByRule(_)
\* Rules (b), (c), (d) and inheritance, from the nearest enclosing function outwards.
NamespaceByRule(chain) ==
    IF chain = <<>> THEN defaultNamespace
    ELSE LET nearest == chain[Len(chain)]
         IN IF nearest.ns # "" THEN nearest.ns
            ELSE IF HookArgument(nearest) # "" THEN HookArgument(nearest)
            ELSE NamespaceByRule(SubSeq(chain, 1, Len(chain) - 1))

\* The identity the rules give the key of a property of a call site.
KeyByRule(site, prop) ==
    [namespace |-> IF Len(site.call.key) >= 2 THEN site.call.key[1]
                   ELSE NamespaceByRule(site.chain),
     keyPath |-> LET path == IF Len(site.call.key) >= 2 THEN Tail(site.call.key)
                             ELSE site.call.key
                 IN SubSeq(path, 1, Len(path) - 1) \o <<path[Len(path)] \o prop.suffix>>]

\* The constants of the file of a call site.
FileScope(site) == extractFileConstants(sourceTree[site.file].constants, NoScope)

Sites ==
    UNION {{[call |-> s.call, chain |-> s.chain, file |-> f] :
               s \in SitesOf(sourceTree[f].statements, <<>>)} : f \in DOMAIN sourceTree}

PropsOf(site) == {site.call.props[i] : i \in 1..Len(site.call.props)}

ScannedIdentities == {scanKeys[i].fullKey : i \in 1..Len(scanKeys)}

ScanRan == cmd = "scan"

\* C18: the keys of a scan are the keys of the call sites with a usable
\* default value, each under the namespace given by (a) the prefix of the key
\* literal, else (b) the TFunction parameter of the nearest enclosing
\* function, else (c) its useTranslation argument, else the namespace of the
\* function around it, else (d) the default namespace.
C18_NamespaceResolutionOrder ==
    ScanRan =>
        ScannedIdentities =
            {KeyByRule(site, prop) : <<site, prop>> \in
                {sp \in Sites \X UNION {PropsOf(site) : site \in Sites} :
                    /\ sp[2] \in PropsOf(sp[1])
                    /\ getNodeValue(sp[2].init, FileScope(sp[1])) # Undef}}

\* A call inside a function without parameter and hook, inside a function
\* with both, is scanned under the parameter's namespace, and the call after
\* the functions under the default namespace.
C18_Witness ==
    /\ ScanRan
    /\ sourceTree[1].statements =
          <<FunctionNode("app", <<HookNode("home"),
                                  FunctionNode("", <<CallNode(<<"t">>, DefaultOnly(Hello))>>)>>),
            CallNode(<<"u">>, DefaultOnly(Hello))>>
    /\ ScannedIdentities =
          {[namespace |-> "app", keyPath |-> <<"t">>],
           [namespace |-> "translation", keyPath |-> <<"u">>]}

\* No other property of a call site has the identity of this one.
OnlySiteOfKey(site, prop) ==
    \A other \in Sites : \A p \in PropsOf(other) :
        KeyByRule(other, p) = KeyByRule(site, prop) => (other = site /\ p = prop)

RECURSIVE HasUnsupported(_, _)
\* Whether an expression is, or holds at any depth, something else than a
\* literal, a list or mapping, or an identifier of a constant of the file.
HasUnsupported(expression, scope) ==
    \/ expression.ekind = "other"
    \/ expression.ekind = "identifier" /\ expression.text[1] \notin DOMAIN scope
    \/ \E i \in 1..Len(expression.elems) : HasUnsupported(expression.elems[i], scope)

\* C19 (as stated): a defaultValue property whose expression is or holds an
\* unsupported expression yields no key, and the scan goes on: the call after
\* it is extracted.
C19_UnsupportedDefaultsSkipped ==
    ScanRan =>
        \A site \in Sites :
            /\ \A prop \in PropsOf(site) :
                  (HasUnsupported(prop.init, FileScope(site)) /\ OnlySiteOfKey(site, prop))
                      => KeyByRule(site, prop) \notin ScannedIdentities
            /\ \A prop \in PropsOf(site) :
                  prop.init = Hello => KeyByRule(site, prop) \in ScannedIdentities

\* ------------------------------------------------------------------------
\* Properties of call sites that share an identity
\* ------------------------------------------------------------------------

RECURSIVE SitesInOrder(_, _)
\* The call sites under a list of nodes in document order, a node before
\* its children.
SitesInOrder(nodes, chain) ==
    IF nodes = <<>> THEN <<>>
    ELSE (IF Head(nodes).nkind = "call" THEN <<[call |-> Head(nodes), chain |-> chain]>>
          ELSE <<>>)
         \o SitesInOrder(Head(nodes).children,
                         IF Head(nodes).nkind = "function" THEN Append(chain, Head(nodes))
                         ELSE chain)
         \o SitesInOrder(Tail(nodes), chain)

RECURSIVE ConcatAll(_)
ConcatAll(seqs) == IF seqs = <<>> THEN <<>> ELSE Head(seqs) \o ConcatAll(Tail(seqs))

\* What the properties of a call site of file f ask to record, in the order
\* of the properties, those without usable default value left out.
AsksOfSite(site, f) ==
    SelectSeq([i \in 1..Len(site.call.props) |->
                  [fullKey |-> KeyByRule(site, site.call.props[i]),
                   defaultValue |-> getNodeValue(site.call.props[i].init,
                                                 extractFileConstants(sourceTree[f].constants,
                                                                      NoScope)),
                   location |-> [filePath |-> sourceTree[f].path, line |-> site.call.line]]],
              LAMBDA ask : ask.defaultValue # Undef)

\* All of them, file after file.
Asks ==
    ConcatAll([f \in 1..Len(sourceTree) |->
                  LET sites == SitesInOrder(sourceTree[f].statements, <<>>)
                  IN ConcatAll([i \in 1..Len(sites) |-> AsksOfSite(sites[i], f)])])

\* The last one for an identity.
LastAsk(fullKey) ==
    Asks[CHOOSE i \in 1..Len(Asks) :
            /\ Asks[i].fullKey = fullKey
            /\ \A j \in (i + 1)..Len(Asks) : Asks[j].fullKey # fullKey]

\* C26: when call sites share a full identity (in one file or in two, a
\* property defaultValue_other of t and the literal key t_other included),
\* the scan ends with a key map that holds exactly one record for every
\* identity, and the record carries the default value and the location of
\* the call site visited last.
C26_LastWriterWins ==
    ScanRan =>
        /\ \A i, j \in 1..Len(scanKeys) : scanKeys[i].fullKey = scanKeys[j].fullKey => i = j
        /\ ScannedIdentities = {Asks[i].fullKey : i \in 1..Len(Asks)}
        /\ \A i \in 1..Len(scanKeys) : scanKeys[i] = LastAsk(scanKeys[i].fullKey)

\* The literal key t_other of the first file is overwritten by the property
\* defaultValue_other of t in the second file.
C26_Witness ==
    /\ ScanRan
    /\ sourceTree =
          <<SourceFile("a.tsx", <<>>, <<CallAt(5, <<"t_other">>, DefaultOnly(Hello)),
                                        CallAt(1, <<"t">>, DefaultOnly(Hello))>>),
            SourceFile("b.tsx", <<>>,
                       <<CallAt(4, <<"t">>, <<DefaultValueProp("", Hello),
                                              DefaultValueProp("_other", Farewell)>>)>>)>>
    /\ scanKeys =
          <<[fullKey |-> [namespace |-> "translation", keyPath |-> <<"t_other">>],
             defaultValue |-> Str(<<"Bye">>),
             location |-> [filePath |-> "b.tsx", line |-> 4]],
            [fullKey |-> [namespace |-> "translation", keyPath |-> <<"t">>],
             defaultValue |-> Str(<<"Hello">>),
             location |-> [filePath |-> "b.tsx", line |-> 4]]>>

\* ------------------------------------------------------------------------
\* Properties of collectUntranslated
\* ------------------------------------------------------------------------

\* The item of a key of the snapshot: its namespace, its key path as
\* parseKey() gives it, its default value.
ItemOf(fullKey) ==
    [namespace |-> NsOf(fullKey), keyPath |-> PathOf(fullKey),
     defaultValue |-> hashes[fullKey].defaultValue]

\* The keys status reported as missing, by sorted namespace and then by
\* sorted full key.
MissingSorted(lang) == SelectSeq(FullKeys, LAMBDA fullKey : fullKey \in MissingSet(lang))

StatusReported == cmd = "status" /\ DOMAIN hashes # {}

\* C20 (as stated): once status has reported, both copies of
\* collectUntranslated return, for every target language, the items of
\* exactly the keys that status reported as missing, ordered by sorted
\* namespace and then by sorted full key.
C20_CollectAgreesWithStatus ==
    StatusReported =>
        \A lang \in TargetLangs :
            LET items == [i \in 1..Len(MissingSorted(lang)) |-> ItemOf(MissingSorted(lang)[i])]
            IN /\ collectUntranslated(docs[lang]) = items
               /\ collectUntranslatedSlice(docs[lang]) = items

\* ------------------------------------------------------------------------
\* Properties of what translate leaves alone
\* ------------------------------------------------------------------------

RECURSIVE ValueLeaves(_, _)
\* The leaves of a document: every path to a value that is not a mapping,
\* with the value.
ValueLeaves(value, path) ==
    IF value.kind = "map"
    THEN UNION {ValueLeaves(value.items[i].v, Append(path, value.items[i].k)) :
                   i \in 1..Len(value.items)}
    ELSE {<<path, value>>}

DocLeaves(file) == ValueLeaves(loadJsonFile(file), <<>>)

\* A step of a translate run.
TranslateStep == cmd' = "translate"

\* The languages the run has selected as targets.
SelectedTargets == {targetLanguages(targetLangArg)[i] : i \in 1..Len(targetLanguages(targetLangArg))}

\* The key paths of the items the step applies in a document.
AppliedPaths(lang, ns) ==
    {SecondOf(fullKey) : fullKey \in {k \in DOMAIN KeyTable :
                                        <<lang, k>> \in applied' /\ NsOf(k) = ns}}

\* The leaves the step changes in a document are at or under the key path of
\* an item it applies.
OnlyAppliedPathsChange(lang, ns) ==
    \A leaf \in (DocLeaves(docs[lang][ns]) \ DocLeaves(docs'[lang][ns]))
                    \cup (DocLeaves(docs'[lang][ns]) \ DocLeaves(docs[lang][ns])) :
        \E keyPath \in AppliedPaths(lang, ns) :
            /\ Len(keyPath) <= Len(leaf[1])
            /\ SubSeq(leaf[1], 1, Len(keyPath)) = keyPath

\* The arguments that name the source language or no configured language.
ArgsWithoutTarget ==
    {arg \in LangArgs \ {""} : arg = defaultLanguage \/ arg \notin LangSet}

\* C29 (as stated): a step of a translate run leaves the snapshot, the
\* source-language documents and the documents of every language that is not
\* a selected target as they are; in a document of a target it changes
\* nothing outside the key paths of the items it applies; and a run whose
\* argument is the source language or not a configured language sends no
\* request and writes nothing.
C29_TranslateFrame ==
    [][TranslateStep =>
          /\ hashes' = hashes
          /\ \A lang \in LangSet \ SelectedTargets' : docs'[lang] = docs[lang]
          /\ docs'[defaultLanguage] = docs[defaultLanguage]
          /\ docs' # docs => \A lang \in LangSet : \A ns \in AllNamespaces :
                                 OnlyAppliedPathsChange(lang, ns)
          /\ (runs' # runs /\ targetLangArg' \in ArgsWithoutTarget) =>
                 /\ payloads' = <<>>
                 /\ fetched' = 0
                 /\ written' = {}
                 /\ disk' = disk
                 /\ tPhase' = "returned"]_vars

\* ------------------------------------------------------------------------
\* Properties of the batches of translate
\* ------------------------------------------------------------------------

\* The positions of the reassembly array a response is written to
\* (translated[start + i] for i < response.strings.length), counted from 0.
BatchPositions(response) ==
    {response.batchId * BATCH_SIZE + i : i \in 0..(Len(response.strings) - 1)}

Settled(i) == results[i].status \in {"fulfilled", "rejected"}

\* Fulfilled responses of one language never share a position, and each
\* covers at most the positions of its own batch.
DisjointPositions ==
    \A i, j \in 1..Len(results) :
        (/\ results[i].status = "fulfilled"
         /\ i # j /\ results[j].status = "fulfilled"
         /\ results[i].language = results[j].language)
        => /\ BatchPositions(results[i]) \cap BatchPositions(results[j]) = {}
           /\ BatchPositions(results[i]) \subseteq
                 {results[i].batchId * BATCH_SIZE + k : k \in 0..(BATCH_SIZE - 1)}

\* C21: while the requests of a translate run are awaited a document is
\* written only when every request has settled, and two batches of one
\* language never write the same position of the reassembly array.
C21_WriteAfterSettleDisjoint ==
    /\ []DisjointPositions
    /\ [][(tPhase = "pending" /\ docs' # docs) =>
             \A i \in 1..Len(results) : Settled(i)]_vars

\* A run has written a document from two fulfilled batches of one language
\* while another batch had failed.
C21_Witness ==
    /\ tPhase = "returned"
    /\ written # {}
    /\ failedCount > 0
    /\ \E i, j \in 1..Len(results) :
          /\ i # j
          /\ results[i].status = "fulfilled" /\ results[j].status = "fulfilled"
          /\ results[i].language = results[j].language

\* ------------------------------------------------------------------------
\* Properties of the snapshot
\* ------------------------------------------------------------------------

ExtractStep == cmd' \in {"extract", "extract2"}

CleanStep == cmd' = "clean" /\ cleanUnusedKeys

\* After an extract run the snapshot holds exactly the scanned keys.
SnapshotIsScan == DOMAIN hashes' = ScannedKeys

\* After a clean run with cleaning enabled the snapshot holds the entries of
\* the scanned keys it held before, unchanged, and no other.
SnapshotPruned ==
    /\ DOMAIN hashes' = DOMAIN hashes \cap ScannedKeys
    /\ \A fullKey \in DOMAIN hashes' : hashes'[fullKey] = hashes[fullKey]

\* C22 (as stated): after an extract run the keys of the snapshot are the
\* keys of the scan and every entry holds the hash of its stored
\* defaultValue; after a clean run with cleaning enabled the snapshot holds
\* no key outside the scan and the entries of scanned keys are unchanged.
C22_SnapshotHashOfStored ==
    [][/\ ExtractStep =>
             /\ SnapshotIsScan
             /\ \A fullKey \in DOMAIN hashes' :
                   hashes'[fullKey].hash = quickHash(hashes'[fullKey].defaultValue)
       /\ CleanStep => SnapshotPruned]_vars

\* ------------------------------------------------------------------------
\* Properties of the classification and the percentage of status
\* ------------------------------------------------------------------------

\* The value is present, is not an empty or blank string and differs from
\* the skeleton of the default value.
PresentAndTouched(value, defaultValue) ==
    /\ value # Undef
    /\ ~(value.kind = "str" /\ IsBlank(value))
    /\ value # generateSkeleton(defaultValue)

\* What status reported for a language follows the rule of the claim.
ClassifiedByRule(lang) ==
    LET keys == DOMAIN hashes
    IN /\ MissingSet(lang) \subseteq keys
       /\ Cardinality(MissingSet(lang)) = Len(missingKeys[lang])
       /\ \A fullKey \in keys :
             fullKey \notin MissingSet(lang)
                <=> PresentAndTouched(ValueAt(docs, lang, fullKey), hashes[fullKey].defaultValue)
       /\ translatedCount[lang] = Cardinality(keys \ MissingSet(lang))
       /\ percentage[lang] = MathRound(100 * translatedCount[lang], Cardinality(keys))
       /\ percentage[lang] \in 0..100

\* C23 (as stated): status counts a tracked key as translated exactly when
\* its document value is present, not blank and not the skeleton, counts every
\* key once, and reports round(100 * translatedCount / totalKeyCount), a
\* number from 0 to 100.
C23_ClassificationAndPercentage ==
    /\ StatusReported => \A lang \in TargetLangs : ClassifiedByRule(lang)
    /\ shown # -1 => /\ shown = MathRound(100 * doneKeys, totalKeys)
                     /\ shown \in 0..100

\* ------------------------------------------------------------------------
\* Properties of flattenStrings and applyStrings
\* ------------------------------------------------------------------------

RECURSIVE SameShape(_, _)
\* Two values have the same containers with the same lengths and keys, the
\* same numbers and booleans, and strings at the same places.
SameShape(v, w) ==
    /\ v.kind = w.kind
    /\ v.kind \in {"num", "bool"} => v = w
    /\ v.kind \in {"list", "map"} =>
          /\ Len(v.items) = Len(w.items)
          /\ \A i \in 1..Len(v.items) :
                IF v.kind = "map"
                THEN v.items[i].k = w.items[i].k /\ SameShape(v.items[i].v, w.items[i].v)
                ELSE SameShape(v.items[i], w.items[i])

ApplyReturned == mCursor # -1

\* C24: applyStrings(v, flattenStrings(v)) is v; for as many strings as v has
\* string leaves the result has the shape, keys, numbers and booleans of v,
\* every string is consumed, and flattening the result gives the strings back.
C24_FlattenApplyMirror ==
    ApplyReturned =>
        /\ mStrings = flattenStrings(mValue) => mResult = mValue
        /\ SameShape(mValue, mResult)
        /\ mCursor = Len(mStrings)
        /\ flattenStrings(mResult) = mStrings

\* A list of a mapping with two strings and a number got a translation and an
\* empty string.
C24_Witness ==
    /\ ApplyReturned
    /\ mValue = List(<<Map(<<Entry("b", Str(<<"Merhaba">>)), Entry("a", Str(<<"Hello">>))>>),
                       Num("1")>>)
    /\ mStrings = <<<<"Elveda">>, <<>>>>
    /\ mResult = List(<<Map(<<Entry("b", Str(<<"Elveda">>)), Entry("a", Str(<<>>))>>),
                        Num("1")>>)

\* ------------------------------------------------------------------------
\* Properties of the change detection
\* ------------------------------------------------------------------------

\* The scanned keys of the previous snapshot whose default value is not the
\* one the snapshot stores (the snapshot stores mappings with sorted keys).
KeysWithNewDefault ==
    {fullKey \in ScannedKeys \cap DOMAIN hashes :
        sortDeep(DefaultOf(fullKey)) # hashes[fullKey].defaultValue}

\* C27 (as stated): an extract run classifies every key of the previous
\* snapshot whose default value is no longer the stored one as changed, and
\* the source-language document then holds the new default value, whatever
\* the kinds of the old and the new value.
C27_EveryChangeDetected ==
    [][ExtractStep =>
          \A fullKey \in KeysWithNewDefault :
              /\ fullKey \in changed'
              /\ ValueAt(docs', defaultLanguage, fullKey) = sortDeep(DefaultOf(fullKey))]_vars

\* ------------------------------------------------------------------------
\* Properties of the documents after extract
\* ------------------------------------------------------------------------

\* C28 (as stated): after an extract run every configured language has a
\* document for the namespace of every extracted key, with a value at the
\* key's dotted path, also when one extracted key path is a dotted prefix of
\* another.
C28_ExtractComplete ==
    ExtractRan =>
        \A fullKey \in ScannedKeys : \A lang \in LangSet :
            /\ docs[lang][NsOf(fullKey)] # NoFile
            /\ ValueAt(docs, lang, fullKey) # Undef

\* ------------------------------------------------------------------------
\* Properties of what clean leaves alone
\* ------------------------------------------------------------------------

\* A run of the clean command, cleaning enabled or not.
CleanRunStep == cmd' = "clean"

\* The value at every key of the fresh scan is the same before and after,
\* in every language.
ValidKeysKept ==
    \A fullKey \in ScannedKeys : \A lang \in LangSet :
        ValueAt(docs', lang, fullKey) = ValueAt(docs, lang, fullKey)

\* No document gains a file or a key path, the snapshot gains no key.
NothingAdded ==
    /\ \A lang \in LangSet : \A ns \in AllNamespaces :
          /\ docs[lang][ns] = NoFile => docs'[lang][ns] = NoFile
          /\ DocPaths(loadJsonFile(docs'[lang][ns])) \subseteq DocPaths(loadJsonFile(docs[lang][ns]))
    /\ DOMAIN hashes' \subseteq DOMAIN hashes

\* C30: a clean run leaves the value at every key of the fresh scan as it
\* is in every language document, composite values with their sub-keys
\* included; it adds no key to a document or to the snapshot; and with
\* cleanUnusedKeys = false it changes no document, index or snapshot.
C30_CleanFrame ==
    [][CleanRunStep =>
          /\ ValidKeysKept
          /\ NothingAdded
          /\ ~cleanUnusedKeys => (docs' = docs /\ index' = index /\ hashes' = hashes)]_vars

\* A clean run has rewritten a Turkish document that holds a mapping at a
\* key of the scan, and has dropped a key from the snapshot.
C30_Witness ==
    /\ cmd = "clean"
    /\ <<"tr", "app">> \in written
    /\ "app:a" \in ScannedKeys
    /\ ValueAt(docs, "tr", "app:a").kind = "map"
    /\ Len(ValueAt(docs, "tr", "app:a").items) = 2
    /\ "app:n" \notin DOMAIN hashes

\* ------------------------------------------------------------------------
\* Properties of the sync policy
\* ------------------------------------------------------------------------

\* The proper and improper prefixes of a key path.
PrefixesOf(keyPath) == {SubSeq(keyPath, 1, n) : n \in 1..Len(keyPath)}

\* The key paths the current source gives a document of the namespace: the
\* scanned keys, the mappings above them, the sub-keys of their default values.
SourcePaths(namespace) ==
    UNION {PrefixesOf(PathOf(fullKey))
           \cup {PathOf(fullKey) \o p : p \in DocPaths(DefaultOf(fullKey))} :
           fullKey \in {k \in ScannedKeys : NsOf(k) = namespace}}

\* Every key path of the non-source documents is one of the current source.
OnlySourcePaths ==
    \A lang \in TargetLangs, ns \in AllNamespaces :
        DocPaths(loadJsonFile(docs[lang][ns])) \subseteq SourcePaths(ns)

\* The step keeps every key path of the non-source documents that is not one
\* of the current source.
LegacyPathsKept ==
    \A lang \in TargetLangs, ns \in AllNamespaces :
        \A p \in DocPaths(loadJsonFile(docs[lang][ns])) \ SourcePaths(ns) :
            p \in DocPaths(loadJsonFile(docs'[lang][ns]))

\* C25 (as stated): with syncTranslationsStrictly an extract run leaves in
\* the non-source documents only key paths of the current source, at document
\* level and inside composite values; without it every key path that is not
\* in the current source is retained.
C25_StrictSyncPurges ==
    [][cmd' \in {"extract", "extract2"} =>
          /\ syncTranslationsStrictly => OnlySourcePaths'
          /\ ~syncTranslationsStrictly => LegacyPathsKept]_vars

====
